---------------------------- MODULE Spec2Model ----------------------------
(***************************************************************************)
(* Contract-driven testing infrastructure: the Mock Request Router         *)
(* (apps/mock-server/mock_server/server.py) and the Scenario Execution     *)
(* Engine (apps/test-executor/test_executor/runner.py, http_executor.py).  *)
(*                                                                         *)
(* Python strings are modelled as sequences of one-character strings, so   *)
(* that strip, split, startswith and upper are computed, not assumed.      *)
(* An optional string (str | None) is a record [some, val].                *)
(***************************************************************************)
EXTENDS Integers, Sequences, FiniteSets, TLC

VARIABLES
    server,         \* the MockServer definition a listener / matcher works on
    m_request,      \* SpecMatch: the MockRequest last handed to _match_route
    m_route,        \* SpecMatch: index of the route _match_route returned (NoRoute = None)
    m_pc,           \* SpecMatch: "idle" before the first call, "matched" after one
    listening,      \* SpecMock: the listener thread runs serve_forever
    conns,          \* SpecMock: per connection, the handler thread serving it
    r_pc,           \* SpecRun: where ScenarioRunner is ("new", "loading", "running", "calling", "done", "aborted")
    scenario_file,  \* SpecRun: the scenario document of the bundle
    scenario,       \* SpecRun: the Scenario load_scenario returned
    index,          \* SpecRun: the loop index of run (1-based)
    in_flight,      \* SpecRun: indexes of the steps whose _execute_step has started and not returned
    step_results,   \* SpecRun: the list step_results of run
    events,         \* SpecRun: the lines written to events.jsonl
    events_open,    \* SpecRun: events_handle is open
    artifacts,      \* SpecRun: the files and directories the run created
    summary,        \* SpecRun: the ScenarioResult run returned
    junit,          \* SpecRun: the testsuite written to results.junit.xml
    r_error,        \* SpecRun: the exception that left __init__ or run
    log,            \* SpecRun: history of <<"call", k>> and <<"record", k>>
    on_disk,        \* SpecRun: how many of the lines written to events.jsonl have left the buffer of the file object
    executed,       \* SpecRun: what the last call of HttpStepExecutor.execute returned or raised, and for which step
    config,         \* SpecLife: MockConfig.servers, each server reduced to its port
    ports,          \* SpecLife: per port, who holds its listening socket
    runner,         \* SpecLife: per server of the configuration, its MockServerRunner
    handlers,       \* SpecLife: per server, the handler threads that have not finished
    runners,        \* SpecLife: MockRuntime._runners
    rt_pc,          \* SpecLife: where MockRuntime is ("new", "binding", "bound", "waiting", "running", "failed",
                    \*           "stopping", "closing", "joining", "stopped")
    rt_i,           \* SpecLife: position of the loop of start / stop
    rt_error,       \* SpecLife: the exception that left MockRuntime.start
    a_step,         \* SpecAssert: the step handed to _validate_assertions
    a_execution,    \* SpecAssert: the ExecutionResult handed to _validate_assertions
    a_i,            \* SpecAssert: position of the loop over step.assertions (1-based)
    a_exc           \* SpecAssert: the exception that left _validate_assertions

matchVars == <<m_request, m_route, m_pc>>

mockVars == <<listening, conns>>

runVars == <<r_pc, scenario_file, scenario, index, in_flight, step_results, events,
             events_open, artifacts, summary, junit, r_error, log, executed, on_disk>>

lifeVars == <<config, ports, runner, handlers, runners, rt_pc, rt_i, rt_error>>

assertVars == <<a_step, a_execution, a_i, a_exc>>

vars == <<server, m_request, m_route, m_pc, listening, conns, runVars, lifeVars, assertVars>>

(***************************************************************************)
(* Bounds of the model.                                                    *)
(***************************************************************************)
MaxRoutes == 2      \* longest route list of a server in SpecMatch
MaxSegs   == 2      \* most path segments of a generated REST path
MaxConns  == 2      \* connections a listener serves at the same time

(***************************************************************************)
(* Python built-ins on strings.                                            *)
(***************************************************************************)
Str0 == <<>>

None == [some |-> FALSE, val |-> Str0]

Some(s) == [some |-> TRUE, val |-> s]

\* truthiness of an optional string: None and "" are falsy
Truthy(o) == o.some /\ o.val # Str0

RECURSIVE LStrip(_, _)
LStrip(s, c) == IF s # <<>> /\ Head(s) = c THEN LStrip(Tail(s), c) ELSE s

RECURSIVE RStrip(_, _)
RStrip(s, c) ==
    IF s # <<>> /\ s[Len(s)] = c THEN RStrip(SubSeq(s, 1, Len(s) - 1), c) ELSE s

\* str.strip(c) for a one-character c
Strip(s, c) == RStrip(LStrip(s, c), c)

Contains(s, c) == \E i \in 1..Len(s) : s[i] = c

FirstIndex(s, c) == CHOOSE i \in 1..Len(s) : s[i] = c /\ \A j \in 1..(i - 1) : s[j] # c

\* str.split(c): the list of the pieces between the occurrences of c
RECURSIVE Split(_, _)
Split(s, c) ==
    IF ~Contains(s, c) THEN <<s>>
    ELSE LET k == FirstIndex(s, c)
         IN  <<SubSeq(s, 1, k - 1)>> \o Split(SubSeq(s, k + 1, Len(s)), c)

\* str.split(c, 1)[0]
SplitFirst(s, c) == IF ~Contains(s, c) THEN s ELSE SubSeq(s, 1, FirstIndex(s, c) - 1)

StartsWith(s, c) == s # <<>> /\ s[1] = c

EndsWith(s, c) == s # <<>> /\ s[Len(s)] = c

UpperChar(c) ==
    CASE c = "g" -> "G" [] c = "e" -> "E" [] c = "t" -> "T"
      [] c = "p" -> "P" [] c = "o" -> "O" [] c = "s" -> "S"
      [] OTHER -> c

\* str.upper()
Upper(s) == [i \in 1..Len(s) |-> UpperChar(s[i])]

\* dict.get(key, default) on a dict built from a list of <<key, value>> items
\* (a later item of the same key replaces an earlier one)
DictGet(d, k, default) ==
    LET hits == {i \in 1..Len(d) : d[i][1] = k}
    IN  IF hits = {} THEN default ELSE d[CHOOSE i \in hits : \A j \in hits : j <= i][2]


(***************************************************************************)
(* json.loads on a request body.  A body is a sequence of lexical tokens   *)
(* [t, s]; the parser recognises scalars, arrays of at most one scalar and *)
(* objects of at most two scalar members, and fails on everything else.    *)
(***************************************************************************)
Tok(t, s) == [t |-> t, s |-> s]

\* a punctuation token
Punct(c) == Tok(c, Str0)

IsScalarTok(t) == t.t \in {"str", "num", "null"}

\* a JSON value: kind, the text of a scalar, the members of an object
JsonValue(kind, s, members) == [kind |-> kind, s |-> s, members |-> members]

JsonError == JsonValue("error", Str0, <<>>)

JsonScalar(t) == JsonValue(t.t, t.s, <<>>)

JsonLoads(toks) ==
    IF \E i \in 1..Len(toks) : toks[i].t = "badutf8" THEN JsonError
    ELSE IF Len(toks) = 1 /\ IsScalarTok(toks[1]) THEN JsonScalar(toks[1])
    ELSE IF toks = <<Punct("["), Punct("]")>> THEN JsonValue("array", Str0, <<>>)
    ELSE IF Len(toks) = 3 /\ toks[1] = Punct("[") /\ IsScalarTok(toks[2]) /\ toks[3] = Punct("]")
        THEN JsonValue("array", Str0, <<<<Str0, JsonScalar(toks[2])>>>>)
    ELSE IF toks = <<Punct("{"), Punct("}")>> THEN JsonValue("object", Str0, <<>>)
    ELSE IF /\ Len(toks) = 5
            /\ toks[1] = Punct("{") /\ toks[2].t = "str" /\ toks[3] = Punct(":")
            /\ IsScalarTok(toks[4]) /\ toks[5] = Punct("}")
        THEN JsonValue("object", Str0, <<<<toks[2].s, JsonScalar(toks[4])>>>>)
    ELSE IF /\ Len(toks) = 9
            /\ toks[1] = Punct("{") /\ toks[2].t = "str" /\ toks[3] = Punct(":")
            /\ IsScalarTok(toks[4]) /\ toks[5] = Punct(",") /\ toks[6].t = "str"
            /\ toks[7] = Punct(":") /\ IsScalarTok(toks[8]) /\ toks[9] = Punct("}")
        THEN JsonValue("object", Str0,
                       <<<<toks[2].s, JsonScalar(toks[4])>>, <<toks[6].s, JsonScalar(toks[8])>>>>)
    ELSE JsonError

\* Python truthiness of a decoded JSON value
JsonTruthy(v) ==
    CASE v.kind = "object" -> v.members # <<>>
      [] v.kind = "array"  -> v.members # <<>>
      [] v.kind = "str"    -> v.s # Str0
      [] v.kind = "num"    -> v.s # <<"0">>
      [] OTHER             -> FALSE

\* payload.get(key) on a decoded object: the last member of that name, else None
JsonGet(v, key) ==
    LET hits == {i \in 1..Len(v.members) : v.members[i][1] = key}
    IN  IF hits = {} THEN JsonValue("null", Str0, <<>>)
        ELSE v.members[CHOOSE i \in hits : \A j \in hits : j <= i][2]

(***************************************************************************)
(* The mock configuration (mock_config_builder/models.py) and the request. *)
(***************************************************************************)
MockMatcher(method, path, soap_action, rpc_method) ==
    [method |-> method, path |-> path, soap_action |-> soap_action, rpc_method |-> rpc_method]

MockResponse(status, headers, body, latency_ms) ==
    [status |-> status, headers |-> headers, body |-> body, latency_ms |-> latency_ms]

MockRoute(operation, matcher, response) ==
    [operation |-> operation, matcher |-> matcher, response |-> response]

MockServer(protocol, routes) == [protocol |-> protocol, routes |-> routes]

MockRequest(method, path, headers, body) ==
    [method |-> method, path |-> path, headers |-> headers, body |-> body]

\* MockRequest.json: None for an empty body or one json.loads rejects
RequestJson(request) ==
    IF request.body = <<>> THEN JsonValue("null", Str0, <<>>)
    ELSE LET v == JsonLoads(request.body)
         IN  IF v.kind = "error" THEN JsonValue("null", Str0, <<>>) ELSE v

(***************************************************************************)
(* Route Matcher.                                                          *)
(***************************************************************************)
IsParamPart(part) == StartsWith(part, "{") /\ EndsWith(part, "}")

\* _rest_path_matches without the strip("/") of lines 251-252
Mutant_rest_path_matches(matcher_path, request_path) ==
    IF matcher_path = request_path THEN TRUE
    ELSE IF ~Contains(matcher_path, "{") THEN FALSE
    ELSE LET matcher_parts == Split(matcher_path, "/")
             request_parts == Split(request_path, "/")
         IN  IF Len(matcher_parts) # Len(request_parts) THEN FALSE
             ELSE \A i \in 1..Len(matcher_parts) :
                      IsParamPart(matcher_parts[i]) \/ matcher_parts[i] = request_parts[i]

\* _rest_path_matches without the return of lines 249-250: segments are
\* compared for every matcher path
Mutant_rest_path_matches_segments(matcher_path, request_path) ==
    IF matcher_path = request_path THEN TRUE
    ELSE LET matcher_parts == Split(Strip(matcher_path, "/"), "/")
             request_parts == Split(Strip(request_path, "/"), "/")
         IN  IF Len(matcher_parts) # Len(request_parts) THEN FALSE
             ELSE \A i \in 1..Len(matcher_parts) :
                      IsParamPart(matcher_parts[i]) \/ matcher_parts[i] = request_parts[i]

_rest_path_matches(matcher_path, request_path) ==
    IF matcher_path = request_path THEN TRUE
    ELSE IF ~Contains(matcher_path, "{") THEN FALSE
    ELSE LET matcher_parts == Split(Strip(matcher_path, "/"), "/")
             request_parts == Split(Strip(request_path, "/"), "/")
         IN  IF Len(matcher_parts) # Len(request_parts) THEN FALSE
             ELSE \A i \in 1..Len(matcher_parts) :
                      IsParamPart(matcher_parts[i]) \/ matcher_parts[i] = request_parts[i]

\* the method name taken from any decoded value, a bare JSON string included
MutantRpcMethodName(request) ==
    LET decoded == RequestJson(request)
    IN  IF decoded.kind = "object" THEN JsonGet(decoded, <<"m", "e", "t", "h", "o", "d">>)
        ELSE decoded

\* request.json or {}, then payload.get("method") when the payload is a dict
RpcMethodName(request) ==
    LET decoded == RequestJson(request)
        payload == IF JsonTruthy(decoded) THEN decoded ELSE JsonValue("object", Str0, <<>>)
    IN  IF payload.kind = "object" THEN JsonGet(payload, <<"m", "e", "t", "h", "o", "d">>)
        ELSE JsonValue("null", Str0, <<>>)

NoRoute == 0

\* the loop body of _match_route with the SOAPAction header compared unstripped
MutantRouteAccepts(protocol, matcher, request) ==
    IF protocol = "rest" THEN
        IF Truthy(matcher.path) /\ ~_rest_path_matches(matcher.path.val, request.path)
            THEN FALSE
        ELSE IF Truthy(matcher.method) /\ Upper(matcher.method.val) # Upper(request.method)
            THEN FALSE
        ELSE TRUE
    ELSE IF protocol = "soap" THEN
        LET soap_action == DictGet(request.headers, "SOAPAction", Str0)
        IN  IF Truthy(matcher.soap_action) /\ matcher.soap_action.val # soap_action
                THEN FALSE
            ELSE IF Truthy(matcher.path) /\ matcher.path.val # request.path
                THEN FALSE
            ELSE TRUE
    ELSE IF protocol = "rpc" THEN
        LET method_name == RpcMethodName(request)
        IN  IF /\ Truthy(matcher.rpc_method)
               /\ ~(method_name.kind = "str" /\ method_name.s = matcher.rpc_method.val)
                THEN FALSE
            ELSE TRUE
    ELSE FALSE

\* one pass of the loop body of _match_route: TRUE when it reaches `return route`,
\* FALSE when it reaches `continue` (or, for an unknown protocol, falls through)
RouteAccepts(protocol, matcher, request) ==
    IF protocol = "rest" THEN
        IF Truthy(matcher.path) /\ ~_rest_path_matches(matcher.path.val, request.path)
            THEN FALSE
        ELSE IF Truthy(matcher.method) /\ Upper(matcher.method.val) # Upper(request.method)
            THEN FALSE
        ELSE TRUE
    ELSE IF protocol = "soap" THEN
        LET soap_action == Strip(DictGet(request.headers, "SOAPAction", Str0), "\"")
        IN  IF Truthy(matcher.soap_action) /\ matcher.soap_action.val # soap_action
                THEN FALSE
            ELSE IF Truthy(matcher.path) /\ matcher.path.val # request.path
                THEN FALSE
            ELSE TRUE
    ELSE IF protocol = "rpc" THEN
        LET method_name == RpcMethodName(request)
        IN  IF /\ Truthy(matcher.rpc_method)
               /\ ~(method_name.kind = "str" /\ method_name.s = matcher.rpc_method.val)
                THEN FALSE
            ELSE TRUE
    ELSE FALSE

\* the loop keeping the last accepting route instead of returning at the first
RECURSIVE MutantMatchFrom(_, _, _)
MutantMatchFrom(srv, request, i) ==
    IF i > Len(srv.routes) THEN NoRoute
    ELSE LET later == MutantMatchFrom(srv, request, i + 1)
         IN  IF later # NoRoute THEN later
             ELSE IF RouteAccepts(srv.protocol, srv.routes[i].matcher, request) THEN i
             ELSE NoRoute

\* the loop of _match_route from route i on: the index of the route returned,
\* NoRoute for None
RECURSIVE MatchFrom(_, _, _)
MatchFrom(srv, request, i) ==
    IF i > Len(srv.routes) THEN NoRoute
    ELSE IF RouteAccepts(srv.protocol, srv.routes[i].matcher, request) THEN i
    ELSE MatchFrom(srv, request, i + 1)

_match_route(srv, request) == MatchFrom(srv, request, 1)

(***************************************************************************)
(* Inputs of the Route Matcher.                                            *)
(***************************************************************************)
s_a == <<"a">>

\* all sequences over Alphabet of length 1..n
RECURSIVE SeqsUpTo(_, _)
SeqsUpTo(Alphabet, n) ==
    IF n = 0 THEN {}
    ELSE LET shorter == SeqsUpTo(Alphabet, n - 1)
         IN  {<<x>> : x \in Alphabet} \cup shorter
                \cup {Append(q, x) : q \in shorter, x \in Alphabet}

RECURSIVE JoinSlash(_)
JoinSlash(segs) ==
    IF Len(segs) = 1 THEN segs[1] ELSE segs[1] \o <<"/">> \o JoinSlash(Tail(segs))

PathOf(segs, trailing) == <<"/">> \o JoinSlash(segs) \o (IF trailing THEN <<"/">> ELSE Str0)

GET == <<"G", "E", "T">>

POST == <<"P", "O", "S", "T">>

HEAD == <<"H", "E", "A", "D">>

NoHeaders == <<>>

Quote == "\""

act_a == <<"u", "a">>

\* the matchers a single-route server is given.
\* rest: templated and literal paths of 1..MaxSegs segments, with and without a
\* trailing slash, an unclosed brace, a brace inside a segment.
MatchersFor(protocol) ==
    LET paths ==
            {Some(PathOf(segs, t)) : segs \in SeqsUpTo({s_a, <<"{", "x", "}">>}, MaxSegs), t \in BOOLEAN}
                \cup {None, Some(Str0), Some(<<"/", "a", "/", "{", "x">>),
                      Some(<<"/", "a", "{", "x", "}">>)}
    IN  CASE protocol = "rest" ->
                {MockMatcher(m, p, None, None) : m \in {None, Some(<<"g", "e", "t">>), Some(POST)}, p \in paths}
          [] protocol = "soap" ->
                {MockMatcher(None, p, a, None) :
                    p \in {None, Some(Str0), Some(PathOf(<<s_a>>, FALSE)),
                           Some(PathOf(<<s_a>>, TRUE))},
                    a \in {None, Some(Str0), Some(act_a), Some(<<"u", "b">>), Some(<<"u", Quote, "a">>),
                           Some(<<Quote>> \o act_a \o <<Quote>>)}}
          [] protocol = "rpc" ->
                {MockMatcher(None, None, None, m) :
                    m \in {None, Some(Str0), Some(<<"p", "a", "y">>), Some(<<"r", "e", "f">>)}}
          [] OTHER -> {MockMatcher(None, None, None, None)}

\* the requests a server of the protocol is sent.
\* soap: SOAPAction values bare, quoted, doubly quoted, half quoted, with a
\* quote inside, only quotes, empty; no header; the header under another case.
\* rpc: bodies that are empty, objects with and without a `method` member, a
\* repeated member, a non-string method, an array, scalars, malformed and
\* undecodable text.
RequestsFor(protocol) ==
    LET paths ==
            {PathOf(segs, t) : segs \in SeqsUpTo({s_a, <<"b">>}, MaxSegs + 1), t \in BOOLEAN}
                \cup {<<"/">>}
        values ==
            { act_a, <<"u", "b">>, <<Quote>> \o act_a \o <<Quote>>,
              <<Quote, Quote>> \o act_a \o <<Quote, Quote>>, <<Quote>> \o act_a,
              <<"u", Quote, "a">>, <<Quote, Quote>>, Str0 }
        headers ==
            {NoHeaders} \cup {<<<<"SOAPAction", v>>>> : v \in values}
                \cup {<<<<"Soapaction", act_a>>>>}
        bodies ==
            { Str0,
              <<Punct("{"), Tok("str", <<"m", "e", "t", "h", "o", "d">>), Punct(":"), Tok("str", <<"p", "a", "y">>), Punct("}")>>,
              <<Punct("{"), Tok("str", <<"m", "e", "t", "h", "o", "d">>), Punct(":"), Tok("str", <<"r", "e", "f">>), Punct("}")>>,
              <<Punct("{"), Tok("str", <<"i", "d">>), Punct(":"), Tok("num", <<"7">>), Punct(","),
                Tok("str", <<"m", "e", "t", "h", "o", "d">>), Punct(":"), Tok("str", <<"p", "a", "y">>), Punct("}")>>,
              <<Punct("{"), Tok("str", <<"m", "e", "t", "h", "o", "d">>), Punct(":"), Tok("str", <<"p", "a", "y">>), Punct(","),
                Tok("str", <<"m", "e", "t", "h", "o", "d">>), Punct(":"), Tok("str", <<"r", "e", "f">>), Punct("}")>>,
              <<Punct("{"), Tok("str", <<"m", "e", "t", "h", "o", "d">>), Punct(":"), Tok("num", <<"7">>), Punct("}")>>,
              <<Punct("{"), Tok("str", <<"m", "e", "t", "h", "o", "d">>), Punct(":"), Tok("null", Str0), Punct("}")>>,
              <<Punct("{"), Tok("str", <<"i", "d">>), Punct(":"), Tok("str", <<"p", "a", "y">>), Punct("}")>>,
              <<Punct("{"), Punct("}")>>,
              <<Punct("["), Tok("str", <<"p", "a", "y">>), Punct("]")>>,
              <<Punct("["), Punct("]")>>,
              <<Tok("str", <<"p", "a", "y">>)>>,
              <<Tok("num", <<"0">>)>>,
              <<Tok("null", Str0)>>,
              <<Punct("{"), Tok("str", <<"m", "e", "t", "h", "o", "d">>), Punct(":"), Tok("str", <<"p", "a", "y">>)>>,
              <<Tok("junk", Str0)>>,
              <<Punct("{"), Tok("str", <<"m", "e", "t", "h", "o", "d">>), Punct(":"), Tok("str", <<"p", "a", "y">>), Punct("}"),
                Tok("badutf8", Str0)>> }
    IN  CASE protocol = "rest" ->
                {MockRequest(m, p, NoHeaders, Str0) : m \in {GET, <<"P", "o", "s", "t">>}, p \in paths}
          [] protocol = "soap" ->
                {MockRequest(POST, p, h, Str0) :
                    p \in {PathOf(<<s_a>>, FALSE), PathOf(<<s_a>>, TRUE), PathOf(<<<<"b">>>>, FALSE)},
                    h \in headers}
          [] protocol = "rpc" ->
                {MockRequest(POST, PathOf(<<s_a>>, FALSE), NoHeaders, b) : b \in bodies}
          [] OTHER -> {MockRequest(GET, PathOf(<<s_a>>, FALSE), NoHeaders, Str0)}

\* servers of SpecMatch: every single-route server over MatchersFor, and every
\* route list of up to MaxRoutes routes over the list matchers (per protocol a
\* wildcard, two overlapping and two disjoint matchers)
MatchServers ==
    LET ListMatchersFor(protocol) ==
            CASE protocol = "rest" ->
                    { MockMatcher(None, None, None, None),
                      MockMatcher(Some(<<"g", "e", "t">>), Some(PathOf(<<s_a, <<"{", "x", "}">>>>, FALSE)), None, None),
                      MockMatcher(None, Some(PathOf(<<s_a, <<"b">>>>, FALSE)), None, None),
                      MockMatcher(Some(POST), Some(PathOf(<<s_a>>, FALSE)), None, None) }
              [] protocol = "soap" ->
                    { MockMatcher(None, None, None, None),
                      MockMatcher(None, None, Some(act_a), None),
                      MockMatcher(None, Some(PathOf(<<s_a>>, FALSE)), None, None),
                      MockMatcher(None, Some(PathOf(<<<<"b">>>>, FALSE)), Some(<<"u", "b">>), None) }
              [] protocol = "rpc" ->
                    { MockMatcher(None, None, None, None),
                      MockMatcher(None, None, None, Some(<<"p", "a", "y">>)),
                      MockMatcher(None, None, None, Some(<<"r", "e", "f">>)) }
              [] OTHER -> {MockMatcher(None, None, None, None)}
        RouteOf(matcher) ==
            MockRoute("op", matcher,
                      MockResponse(200, NoHeaders, [kind |-> "dict", text |-> "", members |-> <<>>], 0))
        RouteLists(matchers, n) ==
            {<<>>} \cup {[i \in 1..Len(q) |-> RouteOf(q[i])] : q \in SeqsUpTo(matchers, n)}
    IN  UNION {
            {MockServer(p, <<RouteOf(m)>>) : m \in MatchersFor(p)}
                \cup {MockServer(p, rs) : rs \in RouteLists(ListMatchersFor(p), MaxRoutes)}
            : p \in {"rest", "soap", "rpc", "grpc"} }

(***************************************************************************)
(* SpecMatch: _match_route applied to every request of the server's        *)
(* protocol.                                                               *)
(***************************************************************************)
NoRequest == MockRequest(Str0, Str0, NoHeaders, Str0)

MatchIdle ==
    /\ m_request = NoRequest
    /\ m_route = NoRoute
    /\ m_pc = "idle"

MockIdle ==
    /\ listening = FALSE
    /\ conns = <<>>

\* no ScenarioRunner has been constructed
RunIdle ==
    /\ r_pc = "idle"
    /\ scenario_file = <<>>
    /\ scenario = <<>>
    /\ index = 0
    /\ in_flight = {}
    /\ step_results = <<>>
    /\ events = <<>>
    /\ events_open = FALSE
    /\ artifacts = {}
    /\ summary = <<>>
    /\ junit = <<>>
    /\ r_error = <<>>
    /\ log = <<>>
    /\ executed = <<>>
    /\ on_disk = 0

\* _validate_assertions is not being looked at on its own
AssertIdle ==
    /\ a_step = <<>>
    /\ a_execution = <<>>
    /\ a_i = 0
    /\ a_exc = <<>>

\* no MockRuntime has been constructed
LifeIdle ==
    /\ config = <<>>
    /\ ports = <<>>
    /\ runner = <<>>
    /\ handlers = <<>>
    /\ runners = <<>>
    /\ rt_pc = "idle"
    /\ rt_i = 0
    /\ rt_error = <<>>

InitMatch ==
    /\ server \in MatchServers
    /\ MatchIdle
    /\ MockIdle
    /\ RunIdle
    /\ LifeIdle
    /\ AssertIdle

MatchRequest ==
    \E q \in RequestsFor(server.protocol) :
        /\ m_request' = q
        /\ m_route' = _match_route(server, q)
        /\ m_pc' = "matched"
        /\ UNCHANGED <<assertVars, lifeVars, server, mockVars, runVars>>

NextMatch == MatchRequest

SpecMatch == InitMatch /\ [][NextMatch]_vars

(***************************************************************************)
(* Mock Listener: what a handler thread writes to its connection.          *)
(* BaseHTTPRequestHandler buffers the status line and the headers and      *)
(* flushes them at end_headers; the body is written to the socket directly.*)
(***************************************************************************)
Item(k, code, name, value) == [k |-> k, code |-> code, name |-> name, value |-> value]

HeaderLine(name, value) == Item("header", 0, name, value)

\* self.send_response / send_header append to the header buffer, end_headers
\* flushes it to the connection, wfile.write writes to the connection
send_response(io, code) == [io EXCEPT !.buffer = Append(@, Item("status", code, "", ""))]

send_header(io, name, value) == [io EXCEPT !.buffer = Append(@, HeaderLine(name, value))]

end_headers(io) == [buffer |-> <<>>, wire |-> io.wire \o io.buffer \o <<Item("end", 0, "", "")>>]

wfile_write(io, text) == [io EXCEPT !.wire = Append(@, Item("body", 0, "", text))]

\* for key, value in headers.items(): self.send_header(key, value)
RECURSIVE SendHeaders(_, _)
SendHeaders(io, items) ==
    IF items = <<>> THEN io
    ELSE SendHeaders(send_header(io, items[1][1], items[1][2]), Tail(items))

\* dict.update: an existing key keeps its place and takes the new value, a new
\* key is appended
RECURSIVE DictUpdate(_, _)
DictUpdate(d, items) ==
    IF items = <<>> THEN d
    ELSE LET k == items[1][1]
             v == items[1][2]
             d1 == IF \E i \in 1..Len(d) : d[i][1] = k
                   THEN [i \in 1..Len(d) |-> IF d[i][1] = k THEN <<k, v>> ELSE d[i]]
                   ELSE Append(d, <<k, v>>)
         IN  DictUpdate(d1, Tail(items))

(***************************************************************************)
(* Response bodies of the configuration (MockResponse.body: Any) and       *)
(* json.dumps.  kind is dict, list, str, int, null, date (a value json     *)
(* cannot serialize) or surrogate (a str that utf-8 cannot encode).        *)
(***************************************************************************)
BodyValue(kind, text, members) == [kind |-> kind, text |-> text, members |-> members]

BStr(text) == BodyValue("str", text, <<>>)

BDict(members) == BodyValue("dict", "", members)

RECURSIVE Serializable(_)
Serializable(v) ==
    /\ v.kind # "date"
    /\ \A i \in 1..Len(v.members) : Serializable(v.members[i][2])

RECURSIVE JsonDumps(_)
RECURSIVE DumpMembers(_, _)
DumpMembers(members, keyed) ==
    IF members = <<>> THEN ""
    ELSE (IF keyed THEN "\"" \o members[1][1] \o "\": " ELSE "")
            \o JsonDumps(members[1][2])
            \o (IF Len(members) > 1 THEN ", " ELSE "")
            \o DumpMembers(Tail(members), keyed)

JsonDumps(v) ==
    CASE v.kind = "dict"      -> "{" \o DumpMembers(v.members, TRUE) \o "}"
      [] v.kind = "list"      -> "[" \o DumpMembers(v.members, FALSE) \o "]"
      [] v.kind = "str"       -> "\"" \o v.text \o "\""
      [] v.kind = "surrogate" -> "\"\\ud800\""
      [] v.kind = "int"       -> v.text
      [] OTHER                -> "null"

\* the result of a step that may raise: ok, or the exception left the step
Rendered(ok, text, encodable) == [ok |-> ok, text |-> text, encodable |-> encodable]

_render_body(protocol, response) ==
    LET body == response.body
    IN  IF body.kind \in {"dict", "list"} THEN
            IF protocol = "soap"
                THEN Rendered(Serializable(body), JsonDumps(body), TRUE)
                ELSE Rendered(Serializable(body), JsonDumps(body), TRUE)
        ELSE IF body.kind \in {"str", "surrogate"} THEN
            Rendered(TRUE, body.text, body.kind = "str")
        ELSE Rendered(Serializable(body), JsonDumps(body), TRUE)

_content_type(protocol) == IF protocol = "soap" THEN "text/xml" ELSE "application/json"

HTTP_NOT_FOUND == 404

HTTP_INTERNAL_SERVER_ERROR == 500

HTTP_NOT_IMPLEMENTED == 501

HTTP_OK == 200

NoMatchPayload == BDict(<<<<"error", BStr("No mock route matched")>>>>)

MockFailurePayload == BDict(<<<<"error", BStr("mock failure")>>>>)

\* _respond writing the body whatever head_only says
Mutant_respond(io, status, payload, head_only) ==
    LET body == JsonDumps(payload)
    IN  wfile_write(end_headers(send_header(send_header(send_response(io, status),
            "Content-Type", "application/json"), "Content-Length", ToString(Len(body)))), body)

\* Handler._respond
_respond(io, status, payload, head_only) ==
    LET body == JsonDumps(payload)
        io1 == send_response(io, status)
        io2 == send_header(io1, "Content-Type", "application/json")
        io3 == send_header(io2, "Content-Length", ToString(Len(body)))
        io4 == end_headers(io3)
    IN  IF head_only THEN io4 ELSE wfile_write(io4, body)

\* Handler._respond_with_route from the line after time.sleep on: [ok, io], ok
\* FALSE when an exception leaves the method with io written so far
_respond_with_route(io, protocol, response, head_only) ==
    LET payload == _render_body(protocol, response)
    IN  IF ~payload.ok THEN [ok |-> FALSE, io |-> io]
        ELSE LET status_code == IF response.status # 0 THEN response.status ELSE HTTP_OK
                 headers == DictUpdate(<<<<"Content-Type", _content_type(protocol)>>>>,
                                       response.headers)
                 io1 == SendHeaders(send_response(io, status_code), headers)
             IN  IF ~payload.encodable THEN [ok |-> FALSE, io |-> io1]
                 ELSE LET io2 == send_header(io1, "Content-Length", ToString(Len(payload.text)))
                          io3 == end_headers(io2)
                      IN  [ok |-> TRUE,
                           io |-> IF head_only THEN io3 ELSE wfile_write(io3, payload.text)]

\* max(response.latency_ms, 0) / 1000, in milliseconds
Latency(response) == IF response.latency_ms > 0 THEN response.latency_ms ELSE 0

(***************************************************************************)
(* Mock Listener: the raw request of a connection and its translation.     *)
(***************************************************************************)
RawRequest(method, target, headers, body) ==
    [method |-> method, target |-> target, headers |-> headers, body |-> body]

\* the methods Handler defines a do_<METHOD> for
HandledMethods ==
    { GET, POST, <<"P", "U", "T">>, <<"D", "E", "L", "E", "T", "E">>,
      <<"P", "A", "T", "C", "H">>, HEAD, <<"O", "P", "T", "I", "O", "N", "S">> }

DigitValue(c) ==
    CASE c = "0" -> 0 [] c = "1" -> 1 [] c = "2" -> 2 [] c = "3" -> 3 [] c = "4" -> 4
      [] c = "5" -> 5 [] c = "6" -> 6 [] c = "7" -> 7 [] c = "8" -> 8 [] OTHER -> 9

\* int(str): defined on a non-empty string of digits
IntParses(str) ==
    /\ str # Str0
    /\ \A i \in 1..Len(str) : str[i] \in {"0", "1", "2", "3", "4", "5", "6", "7", "8", "9"}

RECURSIVE IntOf(_)
IntOf(str) ==
    IF str = Str0 THEN 0
    ELSE 10 * IntOf(SubSeq(str, 1, Len(str) - 1)) + DigitValue(str[Len(str)])

\* rfile.read(n)
ReadBody(body, n) == SubSeq(body, 1, IF n < Len(body) THEN n ELSE Len(body))

\* lines 119-124 of _handle: [ok, request]; ok FALSE when int() raises ValueError
Translate(raw) ==
    LET length == DictGet(raw.headers, "Content-Length", Str0)
    IN  IF length # Str0 /\ ~IntParses(length)
            THEN [ok |-> FALSE, request |-> NoRequest]
        ELSE [ok |-> TRUE,
              request |-> MockRequest(raw.method, SplitFirst(raw.target, "?"), raw.headers,
                                      ReadBody(raw.body, IntOf(length)))]

(***************************************************************************)
(* Mock Listener: connections.  pc is free, accepted (a handler thread was *)
(* started for the connection), sleeping (inside time.sleep) or closed;    *)
(* slept is the time the handler spent in time.sleep, in milliseconds.     *)
(***************************************************************************)
Conn(pc, raw, request, route, failure, io, slept) ==
    [pc |-> pc, raw |-> raw, request |-> request, route |-> route, failure |-> failure,
     io |-> io, slept |-> slept]

FreeConn ==
    Conn("free", RawRequest(Str0, Str0, NoHeaders, Str0), NoRequest, NoRoute, "none",
         [buffer |-> <<>>, wire |-> <<>>], 0)

ConnIds == 1..MaxConns

\* the except branch of _handle: log, then _respond(500)
Failed(conn, io, head_only) ==
    [conn EXCEPT !.pc = "closed", !.failure = "handled",
                 !.io = _respond(io, HTTP_INTERNAL_SERVER_ERROR, MockFailurePayload, head_only)]

\* _respond_with_route after the sleep, inside the try of _handle
Served(conn, protocol, response, head_only) ==
    LET r == _respond_with_route(conn.io, protocol, response, head_only)
    IN  IF r.ok THEN [conn EXCEPT !.pc = "closed", !.io = r.io]
        ELSE Failed(conn, r.io, head_only)

\* http.server answers a method without do_<METHOD> itself (send_error 501)
Unsupported(conn) ==
    [conn EXCEPT !.pc = "closed",
                 !.io = wfile_write(end_headers(send_header(
                            send_response(conn.io, HTTP_NOT_IMPLEMENTED),
                            "Content-Type", "text/html;charset=utf-8")), "Error response")]

\* Handler._handle up to its return or to time.sleep
Handled(srv, conn) ==
    LET raw == conn.raw
        head_only == raw.method = HEAD
        t == Translate(raw)
        route == _match_route(srv, t.request)
    IN  IF raw.method \notin HandledMethods THEN Unsupported(conn)
        ELSE IF ~t.ok THEN [conn EXCEPT !.pc = "closed", !.failure = "escaped"]
        ELSE IF route = NoRoute THEN
            [conn EXCEPT !.pc = "closed", !.request = t.request,
                         !.io = _respond(conn.io, HTTP_NOT_FOUND, NoMatchPayload, head_only)]
        ELSE IF Latency(srv.routes[route].response) > 0 THEN
            [conn EXCEPT !.pc = "sleeping", !.request = t.request, !.route = route]
        ELSE Served([conn EXCEPT !.request = t.request, !.route = route],
                    srv.protocol, srv.routes[route].response, head_only)

\* a server that handles one request at a time: no connection is accepted
\* while another one is being handled
MutantAccept(c, raw) ==
    /\ listening
    /\ conns[c].pc = "free"
    /\ \A d \in ConnIds : conns[d].pc \in {"free", "closed"}
    /\ conns' = [conns EXCEPT ![c] = [FreeConn EXCEPT !.pc = "accepted", !.raw = raw]]
    /\ UNCHANGED <<assertVars, lifeVars, server, listening, matchVars, runVars>>

\* ThreadingMixIn.process_request: a thread per accepted connection
Accept(c, raw) ==
    /\ listening
    /\ conns[c].pc = "free"
    /\ conns' = [conns EXCEPT ![c] = [FreeConn EXCEPT !.pc = "accepted", !.raw = raw]]
    /\ UNCHANGED <<assertVars, lifeVars, server, listening, matchVars, runVars>>

\* handlers that share one output buffer: a handler that finds the buffer taken
\* by another connection's response writes nothing
MutantHandle(c) ==
    /\ conns[c].pc = "accepted"
    /\ LET handled == Handled(server, conns[c])
           taken == \E d \in ConnIds : d # c /\ conns[d].pc = "closed"
       IN  conns' = [conns EXCEPT ![c] =
                        IF taken /\ handled.pc = "closed"
                        THEN [handled EXCEPT !.io = FreeConn.io]
                        ELSE handled]
    /\ UNCHANGED <<assertVars, lifeVars, server, listening, matchVars, runVars>>

\* the handler thread runs _handle
Handle(c) ==
    /\ conns[c].pc = "accepted"
    /\ conns' = [conns EXCEPT ![c] = Handled(server, conns[c])]
    /\ UNCHANGED <<assertVars, lifeVars, server, listening, matchVars, runVars>>

\* time.sleep returns
Wake(c) ==
    /\ conns[c].pc = "sleeping"
    /\ LET response == server.routes[conns[c].route].response
       IN  conns' = [conns EXCEPT ![c] =
                        Served([conns[c] EXCEPT !.slept = Latency(response)],
                               server.protocol, response, conns[c].raw.method = HEAD)]
    /\ UNCHANGED <<assertVars, lifeVars, server, listening, matchVars, runVars>>

\* the handler thread ends and the connection is shut down
Release(c) ==
    /\ conns[c].pc = "closed"
    /\ conns' = [conns EXCEPT ![c] = FreeConn]
    /\ UNCHANGED <<assertVars, lifeVars, server, listening, matchVars, runVars>>

(***************************************************************************)
(* SpecMock: one listener of each protocol serving up to MaxConns          *)
(* connections at a time.                                                  *)
(***************************************************************************)
\* the path /name
PathTo(name) == PathOf(<<<<name>>>>, FALSE)

EmptyServer == MockServer("rest", <<>>)

\* a rest server whose routes overlap (the first one wins), answer after a
\* latency, have a body json.dumps rejects, a body utf-8 cannot encode and a
\* header named content-type in lower case; a soap server whose route has no status and overrides Content-Type; an rpc
\* server whose route has a negative latency; a server without routes
MockServers ==
    LET R_items ==
            MockResponse(200, <<<<"X-Mock", "payments">>>>,
                         BDict(<<<<"items", BodyValue("list", "", <<>>)>>>>), 0)
        R_slow == MockResponse(201, NoHeaders, BStr("ok"), 50)
        R_date == MockResponse(200, NoHeaders, BDict(<<<<"at", BodyValue("date", "", <<>>)>>>>), 50)
        R_surrogate == MockResponse(200, NoHeaders, BodyValue("surrogate", "", <<>>), 0)
        R_xml == MockResponse(0, <<<<"Content-Type", "application/soap+xml">>>>, BStr("<ok/>"), 0)
        R_paid ==
            MockResponse(200, NoHeaders, BDict(<<<<"result", BodyValue("int", "1", <<>>)>>>>), -5)
        R_plain == MockResponse(200, <<<<"content-type", "text/plain">>>>, BStr("hi"), 0)
    IN  { MockServer("rest",
            << MockRoute("listPayments",
                         MockMatcher(Some(GET), Some(PathTo("a")), None, None), R_items),
               MockRoute("anyPayments", MockMatcher(None, Some(PathTo("a")), None, None), R_slow),
               MockRoute("dated", MockMatcher(None, Some(PathTo("d")), None, None), R_date),
               MockRoute("surrogate",
                         MockMatcher(None, Some(PathTo("s")), None, None), R_surrogate),
               MockRoute("plain", MockMatcher(None, Some(PathTo("t")), None, None), R_plain) >>),
          EmptyServer,
          MockServer("soap",
            <<MockRoute("pay", MockMatcher(None, None, Some(act_a), None), R_xml)>>),
          MockServer("rpc",
            <<MockRoute("pay", MockMatcher(None, None, None, Some(<<"p", "a", "y">>)), R_paid)>>) }

\* the requests a client sends to a server of each protocol: matched and
\* unmatched, with a query string, HEAD, a method without handler, a
\* Content-Length that is no number, a Content-Length shorter than the body
RawRequestsFor(protocol) ==
    LET BadLength == <<<<"Content-Length", <<"a", "b", "c">> >>>>
        PayBody == <<Punct("{"), Tok("str", <<"m", "e", "t", "h", "o", "d">>), Punct(":"), Tok("str", <<"p", "a", "y">>), Punct("}")>>
    IN  CASE protocol = "rest" ->
                { RawRequest(GET, PathTo("a"), NoHeaders, Str0),
                  RawRequest(GET, PathTo("a") \o <<"?", "q">>, NoHeaders, Str0),
                  RawRequest(HEAD, PathTo("a"), NoHeaders, Str0),
                  RawRequest(POST, PathTo("a"), NoHeaders, Str0),
                  RawRequest(GET, PathTo("b"), NoHeaders, Str0),
                  RawRequest(HEAD, PathTo("b"), NoHeaders, Str0),
                  RawRequest(<<"T", "R", "A", "C", "E">>, PathTo("b"), NoHeaders, Str0),
                  RawRequest(GET, PathTo("a"), BadLength, Str0),
                  RawRequest(GET, PathTo("b"), BadLength, Str0),
                  RawRequest(GET, PathTo("d"), NoHeaders, Str0),
                  RawRequest(GET, PathTo("s"), NoHeaders, Str0),
                  RawRequest(GET, PathTo("t"), NoHeaders, Str0) }
          [] protocol = "soap" ->
                { RawRequest(POST, PathTo("a"),
                             <<<<"SOAPAction", <<Quote>> \o act_a \o <<Quote>> >>>>, Str0),
                  RawRequest(POST, PathTo("a"), <<<<"SOAPAction", <<"u", "b">>>>>>, Str0),
                  RawRequest(POST, PathTo("a"), NoHeaders, Str0),
                  RawRequest(POST, PathTo("a"), <<<<"SOAPAction", act_a>>>> \o BadLength, Str0) }
          [] OTHER ->
                { RawRequest(POST, PathTo("a"), <<<<"Content-Length", <<"5">> >>>>, PayBody),
                  RawRequest(POST, PathTo("a"), <<<<"Content-Length", <<"3">> >>>>, PayBody),
                  RawRequest(POST, PathTo("a"), NoHeaders, PayBody),
                  RawRequest(POST, PathTo("a"), BadLength, PayBody) }

InitMock ==
    /\ server \in MockServers
    /\ listening = TRUE
    /\ conns = [c \in ConnIds |-> FreeConn]
    /\ MatchIdle
    /\ RunIdle
    /\ LifeIdle
    /\ AssertIdle

NextMock ==
    \E c \in ConnIds :
        \/ \E raw \in RawRequestsFor(server.protocol) : Accept(c, raw)
        \/ Handle(c)
        \/ Wake(c)
        \/ Release(c)

SpecMock == InitMock /\ [][NextMock]_vars

(***************************************************************************)
(* Claims on the Route Matcher, checked under SpecMatch.                   *)
(***************************************************************************)
\* the routes of the server whose matcher accepts the request last matched
AcceptingRoutes ==
    {i \in 1..Len(server.routes) :
        RouteAccepts(server.protocol, server.routes[i].matcher, m_request)}

\* C1: _match_route returns the first route, in declaration order, whose matcher
\* accepts the request, and None exactly when no declared route accepts it; a
\* later route is never returned when an earlier one also accepts.
C1_FirstMatchWins ==
    m_pc = "matched" =>
        /\ (m_route = NoRoute) <=> (AcceptingRoutes = {})
        /\ m_route # NoRoute =>
              /\ m_route \in AcceptingRoutes
              /\ \A j \in AcceptingRoutes : m_route <= j

\* two declared routes accept the request and the first one was returned
C1_Witness ==
    /\ m_pc = "matched"
    /\ Len(server.routes) = 2
    /\ server.routes[1] # server.routes[2]
    /\ AcceptingRoutes = {1, 2}
    /\ m_route = 1

\* the segments of a path: the pieces between slashes, leading and trailing
\* slashes aside
Segments(path) == Split(Strip(path, "/"), "/")

SameIgnoringCase(a, b) ==
    Len(a) = Len(b) /\ \A i \in 1..Len(a) : UpperChar(a[i]) = UpperChar(b[i])

SegmentsMatch(matcher_path, request_path) ==
    /\ Len(Segments(matcher_path)) = Len(Segments(request_path))
    /\ \A i \in 1..Len(Segments(matcher_path)) :
          \/ IsParamPart(Segments(matcher_path)[i])
          \/ Segments(matcher_path)[i] = Segments(request_path)[i]

MethodAccepted(matcher, request) ==
    ~Truthy(matcher.method) \/ SameIgnoringCase(matcher.method.val, request.method)

\* the first route of a rest server was offered a request
RestMatched == m_pc = "matched" /\ server.protocol = "rest" /\ Len(server.routes) >= 1

\* C9 as stated: a rest matcher accepts iff (path unspecified, or literally
\* equal, or same number of segments with every non-{param} segment equal) and
\* (method unspecified or equal ignoring case).
C9_AsStated ==
    RestMatched =>
        LET matcher == server.routes[1].matcher
        IN  (m_route = 1) <=>
                /\ \/ ~Truthy(matcher.path)
                   \/ matcher.path.val = m_request.path
                   \/ SegmentsMatch(matcher.path.val, m_request.path)
                /\ MethodAccepted(matcher, m_request)

p_a_x == PathOf(<<s_a, <<"{", "x", "}">>>>, FALSE)

\* C9 amended: the segment-wise comparison applies only to a matcher path that
\* contains "{"; a matcher path without "{" accepts by literal equality alone.
\* /a/{x} accepts /a/b and /a/a and rejects /a/b/a.
C9_RestMatcher ==
    RestMatched =>
        LET matcher == server.routes[1].matcher
        IN  /\ (m_route = 1) <=>
                  /\ \/ ~Truthy(matcher.path)
                     \/ matcher.path.val = m_request.path
                     \/ /\ Contains(matcher.path.val, "{")
                        /\ SegmentsMatch(matcher.path.val, m_request.path)
                  /\ MethodAccepted(matcher, m_request)
            /\ (matcher.path = Some(p_a_x) /\ matcher.method = None) =>
                  /\ m_request.path \in {PathOf(<<s_a, <<"b">>>>, FALSE), PathOf(<<s_a, s_a>>, FALSE)}
                        => m_route = 1
                  /\ m_request.path = PathOf(<<s_a, <<"b">>, s_a>>, FALSE) => m_route # 1

\* /a/{x} with method `get` was offered `GET /a/b/` and accepted it
C9_Witness ==
    /\ RestMatched
    /\ server.routes[1].matcher.path = Some(p_a_x)
    /\ server.routes[1].matcher.method = Some(<<"g", "e", "t">>)
    /\ m_request.path = PathOf(<<s_a, <<"b">>>>, TRUE)
    /\ m_request.method = GET
    /\ m_route = 1

\* the path has a segment of the form {param}
Templated(path) == \E i \in 1..Len(Segments(path)) : IsParamPart(Segments(path)[i])

\* C29: on a rest server whose first matcher has a path and accepts the
\* request's method, a templated matcher path accepts exactly the request
\* paths whose segments match once the slashes at both ends of both paths are
\* dropped; a matcher path without "{" accepts only the request path equal to
\* it.  /a/{x} accepts /a/b/ and /a rejects /a/.
C29_SlashHandling ==
    RestMatched =>
        LET matcher == server.routes[1].matcher
            path == matcher.path.val
        IN  (Truthy(matcher.path) /\ MethodAccepted(matcher, m_request)) =>
                /\ Templated(path) => ((m_route = 1) <=> SegmentsMatch(path, m_request.path))
                /\ ~Contains(path, "{") => ((m_route = 1) <=> path = m_request.path)
                /\ (path = p_a_x /\ m_request.path = PathOf(<<s_a, <<"b">>>>, TRUE)) => m_route = 1
                /\ (path = PathOf(<<s_a>>, FALSE) /\ m_request.path = PathOf(<<s_a>>, TRUE)) => m_route # 1

\* the literal /a/b rejected GET /a/b/ and the templated /a/{x} after it accepted it
C29_Witness ==
    /\ m_pc = "matched"
    /\ server.protocol = "rest"
    /\ Len(server.routes) = 2
    /\ server.routes[1].matcher.path = Some(PathOf(<<s_a, <<"b">>>>, FALSE))
    /\ server.routes[2].matcher.path = Some(p_a_x)
    /\ m_request.path = PathOf(<<s_a, <<"b">>>>, TRUE)
    /\ m_request.method = GET
    /\ m_route = 2

\* s with every leading and trailing double quote removed
Unquoted(s) ==
    LET inner == {<<i, j>> \in (1..(Len(s) + 1)) \X (0..Len(s)) :
                    /\ i <= j + 1
                    /\ \A k \in 1..(i - 1) : s[k] = Quote
                    /\ \A k \in (j + 1)..Len(s) : s[k] = Quote
                    /\ i <= j => (s[i] # Quote /\ s[j] # Quote)}
        ij == CHOOSE x \in inner : \A y \in inner : (x[2] - x[1]) >= (y[2] - y[1])
    IN  SubSeq(s, ij[1], ij[2])

HasHeader(request, name) == \E i \in 1..Len(request.headers) : request.headers[i][1] = name

HeaderValue(request, name) ==
    request.headers[CHOOSE i \in 1..Len(request.headers) : request.headers[i][1] = name][2]

SoapMatched == m_pc = "matched" /\ server.protocol = "soap" /\ Len(server.routes) >= 1

RpcMatched == m_pc = "matched" /\ server.protocol = "rpc" /\ Len(server.routes) >= 1

\* the request body is the text of a JSON object
IsJsonObject(body) == body # Str0 /\ JsonLoads(body).kind = "object"

\* the positions of the members called `method` in a decoded object
MethodMembers(body) ==
    {i \in 1..Len(JsonLoads(body).members) : JsonLoads(body).members[i][1] = <<"m", "e", "t", "h", "o", "d">>}

\* C11: an rpc matcher that specifies rpc-method accepts a request iff the body
\* parses as a JSON object whose `method` field is that string; a body that is
\* empty, malformed or not a JSON object has no method and is accepted only by
\* a matcher without rpc-method.
C11_RpcMatcher ==
    RpcMatched =>
        LET matcher == server.routes[1].matcher
            body == m_request.body
            members == JsonLoads(body).members
        IN  /\ Truthy(matcher.rpc_method) =>
                  ((m_route = 1) <=>
                      /\ IsJsonObject(body)
                      /\ MethodMembers(body) # {}
                      /\ \E i \in MethodMembers(body) :
                            /\ \A j \in MethodMembers(body) : j <= i
                            /\ members[i][2].kind = "str"
                            /\ members[i][2].s = matcher.rpc_method.val)
            /\ ~IsJsonObject(body) => ((m_route = 1) <=> ~Truthy(matcher.rpc_method))
            /\ ~Truthy(matcher.rpc_method) => m_route = 1

\* a matcher with rpc-method pay accepted the body {"id": 7, "method": "pay"}
C11_Witness ==
    /\ RpcMatched
    /\ server.routes[1].matcher.rpc_method = Some(<<"p", "a", "y">>)
    /\ Len(m_request.body) = 9
    /\ MethodMembers(m_request.body) = {2}
    /\ m_route = 1

(***************************************************************************)
(* Claims on the Mock Listener, checked under SpecMock.                    *)
(***************************************************************************)
\* what the client of a connection has received: the status of the first
\* status line, the header lines up to the end of the headers, the body bytes
WireStatus(io) ==
    IF io.wire # <<>> /\ io.wire[1].k = "status" THEN io.wire[1].code ELSE 0

WireHeaders(io) ==
    LET ends == {i \in 1..Len(io.wire) : io.wire[i].k = "end"}
        first == IF ends = {} THEN Len(io.wire) + 1 ELSE CHOOSE i \in ends : \A j \in ends : i <= j
    IN  SubSeq(io.wire, 2, first - 1)

RECURSIVE BodyOf(_)
BodyOf(items) ==
    IF items = <<>> THEN ""
    ELSE (IF items[1].k = "body" THEN items[1].value ELSE "") \o BodyOf(Tail(items))

WireBody(io) == BodyOf(io.wire)

NoMatchBody == "{\"error\": \"No mock route matched\"}"

MockFailureBody == "{\"error\": \"mock failure\"}"

\* the connection's request reached the Route Matcher and no declared route
\* accepts it
Unmatched(c) ==
    /\ conns[c].pc = "closed"
    /\ conns[c].request # NoRequest
    /\ \A i \in 1..Len(server.routes) :
          ~RouteAccepts(server.protocol, server.routes[i].matcher, conns[c].request)

C8_AsStated ==
    \A c \in ConnIds :
        (conns[c].pc = "closed" /\ conns[c].failure # "none") =>
            /\ WireStatus(conns[c].io) = 500
            /\ WireBody(conns[c].io) = (IF conns[c].raw.method = HEAD THEN "" ELSE MockFailureBody)
            /\ listening

\* the connection's request was matched to a route and its handler has ended
Matched(c) == conns[c].pc = "closed" /\ conns[c].route # NoRoute

\* two header names denote the same HTTP header field
SameField(a, b) == a = b \/ {a, b} = {"Content-Type", "content-type"}

\* the JSON serialization of a structured value, a string verbatim
DeclaredBody(response) ==
    IF response.body.kind \in {"str", "surrogate"} THEN response.body.text
    ELSE JsonDumps(response.body)

\* C12 (as stated): for a matched request the listener emits nothing before it
\* has waited max(latency_ms, 0) milliseconds; the response has the route's
\* declared status, the protocol-default Content-Type overridden by the route's
\* headers on conflict (one value per header field, the route's when it gives
\* one), a Content-Length equal to the length of the body, and the body that is
\* the JSON serialization of a structured value or the string verbatim.
C12_AsStated ==
    \A c \in ConnIds :
        /\ conns[c].pc = "sleeping" => conns[c].io.wire = <<>>
        /\ Matched(c) =>
              LET response == server.routes[conns[c].route].response
                  io == conns[c].io
                  headers == WireHeaders(io)
              IN  /\ conns[c].slept = (IF response.latency_ms > 0 THEN response.latency_ms ELSE 0)
                  /\ WireStatus(io) = response.status
                  /\ \A i \in 1..Len(response.headers) :
                        \E j \in 1..Len(headers) :
                            /\ headers[j].name = response.headers[i][1]
                            /\ headers[j].value = response.headers[i][2]
                  /\ \A j, k \in 1..Len(headers) :
                        SameField(headers[j].name, headers[k].name) => j = k
                  /\ \E j \in 1..Len(headers) : SameField(headers[j].name, "Content-Type")
                  /\ \E j \in 1..Len(headers) :
                        headers[j] = HeaderLine("Content-Length", ToString(Len(WireBody(io))))
                  /\ WireBody(io) = DeclaredBody(response)

HandledAlone(raw) ==
    LET handled == Handled(server, [FreeConn EXCEPT !.pc = "accepted", !.raw = raw])
        response == server.routes[handled.route].response
    IN  IF handled.pc = "sleeping"
        THEN Served([handled EXCEPT !.slept = Latency(response)], server.protocol, response,
                    raw.method = HEAD)
        ELSE handled

\* C14: while one request waits out its route latency, another request to the
\* same listener can be accepted, matched and answered, and the wait ends
\* whatever the other connections do; under every interleaving a request gets
\* the response it would get if it were handled alone.
C14_Independent ==
    \A c \in ConnIds :
        /\ conns[c].pc = "closed" => conns[c] = HandledAlone(conns[c].raw)
        /\ conns[c].pc = "sleeping" =>
              /\ ENABLED Wake(c)
              /\ \A d \in ConnIds :
                    /\ conns[d].pc = "free" =>
                          \A raw \in RawRequestsFor(server.protocol) : ENABLED Accept(d, raw)
                    /\ conns[d].pc = "accepted" => ENABLED Handle(d)

\* a request was matched and answered while another connection's request was
\* waiting out its latency
C14_Witness ==
    \E c, d \in ConnIds :
        /\ conns[c].pc = "sleeping"
        /\ Matched(d)
        /\ conns[d].slept = 0
        /\ WireStatus(conns[d].io) = 200
        /\ WireBody(conns[d].io) # ""

(***************************************************************************)
(* The Scenario Runner: test_executor/runner.py, loader.py, models.py and  *)
(* http_executor.py.  Clause and protocol texts are sequences of           *)
(* characters; names and error messages are strings.  Clock readings       *)
(* (started_at, finished_at, duration_ms) are not part of the model.       *)
(***************************************************************************)
MaxSteps == 3      \* most steps of a generated scenario

\* "".join(s): the text of a sequence of characters
RECURSIVE Text(_)
Text(s) == IF s = Str0 THEN "" ELSE Head(s) \o Text(Tail(s))

Whitespace == {" ", "\t", "\n"}

RECURSIVE LStripWs(_)
LStripWs(s) == IF s # Str0 /\ Head(s) \in Whitespace THEN LStripWs(Tail(s)) ELSE s

RECURSIVE RStripWs(_)
RStripWs(s) ==
    IF s # Str0 /\ s[Len(s)] \in Whitespace THEN RStripWs(SubSeq(s, 1, Len(s) - 1)) ELSE s

\* str.strip()
StripWs(s) == RStripWs(LStripWs(s))

\* str.startswith(p)
HasPrefix(s, p) == Len(s) >= Len(p) /\ SubSeq(s, 1, Len(p)) = p

\* s.split(sep, 1)[1], for s that contains sep
AfterFirst(s, sep) ==
    LET at == {i \in 1..(Len(s) - Len(sep) + 1) : SubSeq(s, i, i + Len(sep) - 1) = sep}
        first == CHOOSE i \in at : \A j \in at : i <= j
    IN  SubSeq(s, first + Len(sep), Len(s))

LowerChar(c) ==
    LET upper ==
            <<"A", "B", "C", "D", "E", "F", "G", "H", "I", "J", "K", "L", "M", "N",
              "O", "P", "Q", "R", "S", "T", "U", "V", "W", "X", "Y", "Z">>
        lower ==
            <<"a", "b", "c", "d", "e", "f", "g", "h", "i", "j", "k", "l", "m", "n",
              "o", "p", "q", "r", "s", "t", "u", "v", "w", "x", "y", "z">>
    IN  IF \E i \in 1..Len(upper) : upper[i] = c
        THEN lower[CHOOSE i \in 1..Len(upper) : upper[i] = c]
        ELSE c

\* str.lower()
Lower(s) == [i \in 1..Len(s) |-> LowerChar(s[i])]

\* an exception in flight: its class and str(exc)
Exc(type, text) == [raised |-> TRUE, type |-> type, text |-> text]

NoExc == [raised |-> FALSE, type |-> "", text |-> ""]

\* Optional[str] fields of StepResult
NoText == [some |-> FALSE, val |-> ""]

SomeText(t) == [some |-> TRUE, val |-> t]

\* traceback.format_exc()
FormatExc(exc) == "Traceback (most recent call last): " \o exc.type \o ": " \o exc.text

ScenarioStep(name, protocol, request, assertions) ==
    [name |-> name, protocol |-> protocol, request |-> request, assertions |-> assertions]

\* the request block of a step: method (None when the key is absent), path and
\* the payload reference ("" when the key is absent)
StepRequest(method, path, payload) == [method |-> method, path |-> path, payload |-> payload]

Scenario(scenario_id, service, protocol, steps) ==
    [scenario_id |-> scenario_id, service |-> service, protocol |-> protocol, steps |-> steps]

StepResult(step_index, step_name, status, assertions, error, traceback) ==
    [step_index |-> step_index, step_name |-> step_name, status |-> status,
     assertions |-> assertions, error |-> error, traceback |-> traceback]

ExecutionResult(status_code, elapsed_ms) == [status_code |-> status_code, elapsed_ms |-> elapsed_ms]

\* the payload files of the bundle, by the reference a step makes to them
BundleFile(payload_ref) ==
    IF payload_ref = "payloads/001_step.json"
    THEN [exists |-> TRUE, suffix |-> ".json", json |-> TRUE]
    ELSE [exists |-> FALSE, suffix |-> ".json", json |-> FALSE]

\* _load_payload: the payload (by kind) or the exception it raises
_load_payload(payload_ref) ==
    IF payload_ref = "" THEN [exc |-> NoExc, payload |-> "None"]
    ELSE LET file == BundleFile(payload_ref)
         IN  IF ~file.exists
             THEN [exc |-> Exc("FileNotFoundError", "Payload file not found: " \o payload_ref),
                   payload |-> "None"]
             ELSE IF file.suffix \in {".yaml", ".yml"} THEN [exc |-> NoExc, payload |-> "dict"]
             ELSE IF file.json THEN [exc |-> NoExc, payload |-> "dict"]
             ELSE [exc |-> NoExc, payload |-> "str"]

proto_openapi == <<"o", "p", "e", "n", "a", "p", "i">>

\* (step.protocol or scenario.protocol or "").lower()
EffectiveProtocol(scn, step) ==
    Lower(IF step.protocol # Str0 THEN step.protocol ELSE scn.protocol)

\* _execute_with_protocol up to the call: the step goes to the HTTP executor,
\* or NotImplementedError is raised
_execute_with_protocol(scn, step) ==
    IF EffectiveProtocol(scn, step)
           \in {proto_openapi, <<"r", "e", "s", "t">>, <<"h", "t", "t", "p">>}
    THEN NoExc
    ELSE Exc("NotImplementedError", "Protocol '" \o Text(step.protocol) \o "' is not supported")

DEFAULT_BASE_URL == "http://127.0.0.1:9101"

\* what the network does with a request: the server answers with a status
\* after elapsed_ms, or the connection fails
Outcomes ==
    { [kind |-> "response", status |-> 200, elapsed_ms |-> 50],
      [kind |-> "response", status |-> 200, elapsed_ms |-> 100],
      [kind |-> "response", status |-> 404, elapsed_ms |-> 50],
      [kind |-> "response", status |-> 500, elapsed_ms |-> 50],
      [kind |-> "url_error", status |-> 0, elapsed_ms |-> 0] }

\* an executor that raises for an error status, as raise_for_status does
Mutant_perform_request(step, outcome) ==
    IF outcome.kind = "url_error" \/ outcome.status >= 400
    THEN [exc |-> Exc("RuntimeError", "HTTP request failed for " \o step.request.path),
          execution |-> ExecutionResult(0, 0)]
    ELSE [exc |-> NoExc, execution |-> ExecutionResult(outcome.status, outcome.elapsed_ms)]

\* HttpStepExecutor.execute with _perform_request: urlopen returns the response,
\* raises HTTPError for an error status, or raises URLError
_perform_request(step, outcome) ==
    LET method == Upper(IF step.request.method.some THEN step.request.method.val ELSE GET)
        url == DEFAULT_BASE_URL \o step.request.path
    IN  IF outcome.kind = "url_error"
        THEN [exc |-> Exc("RuntimeError", "HTTP request failed for " \o Text(method) \o " "
                              \o url \o ": <urlopen error>"),
              execution |-> ExecutionResult(0, 0)]
        ELSE LET http_error == outcome.status >= 400
                 status == IF http_error THEN outcome.status ELSE outcome.status
             IN  [exc |-> NoExc, execution |-> ExecutionResult(status, outcome.elapsed_ms)]

\* float(str): defined here on a non-empty string of digits
FloatParses(str) == IntParses(str)

FloatOf(str) == IntOf(str)

\* an evaluation in which an elapsed time equal to the threshold passes
MutantEvalClause(step, execution, i) ==
    LET text == StripWs(step.assertions[i])
        pfx_status == <<"s", "t", "a", "t", "u", "s", " ", "=", "=">>
        pfx_time ==
            <<"r", "e", "s", "p", "o", "n", "s", "e", "_", "t", "i", "m", "e", "_", "m", "s", " ", "<">>
    IN  IF HasPrefix(text, pfx_status)
        THEN LET operand == StripWs(AfterFirst(text, <<"=", "=">>))
             IN  IF ~IntParses(operand)
                 THEN Exc("ValueError", "invalid literal for int() with base 10: '"
                              \o Text(operand) \o "'")
                 ELSE IF execution.status_code # IntOf(operand)
                 THEN Exc("AssertionError", "Step '" \o step.name \o "' expected status "
                              \o ToString(IntOf(operand)) \o " but received "
                              \o ToString(execution.status_code))
                 ELSE NoExc
        ELSE IF HasPrefix(text, pfx_time)
        THEN LET operand == StripWs(AfterFirst(text, <<"<">>))
             IN  IF ~FloatParses(operand)
                 THEN Exc("ValueError", "could not convert string to float: '"
                              \o Text(operand) \o "'")
                 ELSE IF execution.elapsed_ms > FloatOf(operand)
                 THEN Exc("AssertionError", "Step '" \o step.name
                              \o "' exceeded response time threshold "
                              \o ToString(FloatOf(operand)) \o ".0ms")
                 ELSE NoExc
        ELSE NoExc

\* an evaluation that treats a clause whose operand is no number as
\* unrecognized text
MutantEvalClauseLenient(step, execution, i) ==
    LET text == StripWs(step.assertions[i])
        pfx_status == <<"s", "t", "a", "t", "u", "s", " ", "=", "=">>
        pfx_time ==
            <<"r", "e", "s", "p", "o", "n", "s", "e", "_", "t", "i", "m", "e", "_", "m", "s", " ", "<">>
    IN  IF HasPrefix(text, pfx_status)
        THEN LET operand == StripWs(AfterFirst(text, <<"=", "=">>))
             IN  IF ~IntParses(operand)
                 THEN NoExc
                 ELSE IF execution.status_code # IntOf(operand)
                 THEN Exc("AssertionError", "Step '" \o step.name \o "' expected status "
                              \o ToString(IntOf(operand)) \o " but received "
                              \o ToString(execution.status_code))
                 ELSE NoExc
        ELSE IF HasPrefix(text, pfx_time)
        THEN LET operand == StripWs(AfterFirst(text, <<"<">>))
             IN  IF ~FloatParses(operand)
                 THEN NoExc
                 ELSE IF execution.elapsed_ms >= FloatOf(operand)
                 THEN Exc("AssertionError", "Step '" \o step.name
                              \o "' exceeded response time threshold "
                              \o ToString(FloatOf(operand)) \o ".0ms")
                 ELSE NoExc
        ELSE NoExc

\* an evaluation that rejects a clause it does not recognize
MutantEvalClauseStrict(step, execution, i) ==
    LET text == StripWs(step.assertions[i])
        pfx_status == <<"s", "t", "a", "t", "u", "s", " ", "=", "=">>
        pfx_time ==
            <<"r", "e", "s", "p", "o", "n", "s", "e", "_", "t", "i", "m", "e", "_", "m", "s", " ", "<">>
    IN  IF HasPrefix(text, pfx_status)
        THEN LET operand == StripWs(AfterFirst(text, <<"=", "=">>))
             IN  IF ~IntParses(operand)
                 THEN Exc("ValueError", "invalid literal for int() with base 10: '"
                              \o Text(operand) \o "'")
                 ELSE IF execution.status_code # IntOf(operand)
                 THEN Exc("AssertionError", "Step '" \o step.name \o "' expected status "
                              \o ToString(IntOf(operand)) \o " but received "
                              \o ToString(execution.status_code))
                 ELSE NoExc
        ELSE IF HasPrefix(text, pfx_time)
        THEN LET operand == StripWs(AfterFirst(text, <<"<">>))
             IN  IF ~FloatParses(operand)
                 THEN Exc("ValueError", "could not convert string to float: '"
                              \o Text(operand) \o "'")
                 ELSE IF execution.elapsed_ms >= FloatOf(operand)
                 THEN Exc("AssertionError", "Step '" \o step.name
                              \o "' exceeded response time threshold "
                              \o ToString(FloatOf(operand)) \o ".0ms")
                 ELSE NoExc
        ELSE Exc("ValueError", "unknown assertion: " \o Text(text))

\* one iteration of the loop of _validate_assertions: what clause i raises,
\* NoExc when it holds or is not recognized
EvalClause(step, execution, i) ==
    LET text == StripWs(step.assertions[i])
        pfx_status == <<"s", "t", "a", "t", "u", "s", " ", "=", "=">>
        pfx_time ==
            <<"r", "e", "s", "p", "o", "n", "s", "e", "_", "t", "i", "m", "e", "_", "m", "s", " ", "<">>
    IN  IF HasPrefix(text, pfx_status)
        THEN LET operand == StripWs(AfterFirst(text, <<"=", "=">>))
             IN  IF ~IntParses(operand)
                 THEN Exc("ValueError", "invalid literal for int() with base 10: '"
                              \o Text(operand) \o "'")
                 ELSE IF execution.status_code # IntOf(operand)
                 THEN Exc("AssertionError", "Step '" \o step.name \o "' expected status "
                              \o ToString(IntOf(operand)) \o " but received "
                              \o ToString(execution.status_code))
                 ELSE NoExc
        ELSE IF HasPrefix(text, pfx_time)
        THEN LET operand == StripWs(AfterFirst(text, <<"<">>))
             IN  IF ~FloatParses(operand)
                 THEN Exc("ValueError", "could not convert string to float: '"
                              \o Text(operand) \o "'")
                 ELSE IF execution.elapsed_ms >= FloatOf(operand)
                 THEN Exc("AssertionError", "Step '" \o step.name
                              \o "' exceeded response time threshold "
                              \o ToString(FloatOf(operand)) \o ".0ms")
                 ELSE NoExc
        ELSE NoExc

\* _validate_assertions from clause i on: the exception of the first clause
\* that raises, NoExc when none does
RECURSIVE ValidateFrom(_, _, _)
ValidateFrom(step, execution, i) ==
    IF i > Len(step.assertions) THEN NoExc
    ELSE LET exc == EvalClause(step, execution, i)
         IN  IF exc.raised THEN exc ELSE ValidateFrom(step, execution, i + 1)

_validate_assertions(step, execution) == ValidateFrom(step, execution, 1)

\* a StepResult whose step_index counts from 0
Mutant_execute_step(step, step_index, exc) ==
    StepResult(step_index - 1, step.name,
               IF exc.raised THEN "failed" ELSE "passed",
               step.assertions,
               IF exc.raised THEN SomeText(exc.text) ELSE NoText,
               IF exc.raised THEN SomeText(FormatExc(exc)) ELSE NoText)

\* a failed StepResult that carries the error text without the trace
Mutant_execute_step_untraced(step, step_index, exc) ==
    StepResult(step_index, step.name,
               IF exc.raised THEN "failed" ELSE "passed",
               step.assertions,
               IF exc.raised THEN SomeText(exc.text) ELSE NoText,
               NoText)

\* _execute_step from its try block on: the StepResult for what the try block
\* raised (NoExc when it raised nothing)
_execute_step(step, step_index, exc) ==
    StepResult(step_index, step.name,
               IF exc.raised THEN "failed" ELSE "passed",
               step.assertions,
               IF exc.raised THEN SomeText(exc.text) ELSE NoText,
               IF exc.raised THEN SomeText(FormatExc(exc)) ELSE NoText)

\* the dict json.dumps writes as one line of events.jsonl
_serialize_step_result(result) ==
    [step_index |-> result.step_index, step_name |-> result.step_name,
     status |-> result.status, assertions |-> result.assertions,
     error |-> result.error, traceback |-> result.traceback]

ScenarioResult(scenario_id, service, protocol, total_steps, passed_steps, failed_steps, failures) ==
    [scenario_id |-> scenario_id, service |-> service, protocol |-> protocol,
     total_steps |-> total_steps, passed_steps |-> passed_steps,
     failed_steps |-> failed_steps, failures |-> failures]

NoSummary == ScenarioResult("", "", Str0, 0, 0, 0, <<>>)

NotPassed(result) == result.status # "passed"

\* a summary whose failures list holds every step
Mutant_build_summary(scn, results) ==
    LET failed == SelectSeq(results, NotPassed)
        failures_payload ==
            [i \in 1..Len(results) |->
                [step_name |-> results[i].step_name, error |-> results[i].error,
                 traceback |-> results[i].traceback]]
    IN  ScenarioResult(scn.scenario_id, scn.service, scn.protocol,
                       Len(results), Len(results) - Len(failed), Len(failed),
                       failures_payload)

_build_summary(scn, results) ==
    LET failed == SelectSeq(results, NotPassed)
        failures_payload ==
            [i \in 1..Len(failed) |->
                [step_name |-> failed[i].step_name, error |-> failed[i].error,
                 traceback |-> failed[i].traceback]]
    IN  ScenarioResult(scn.scenario_id, scn.service, scn.protocol,
                       Len(results), Len(results) - Len(failed), Len(failed),
                       failures_payload)

NoJunit == [name |-> "", tests |-> "", failures |-> "", testcases |-> <<>>]

\* the testsuite element _write_junit writes
_write_junit(results, scn) ==
    [name |-> scn.scenario_id,
     tests |-> ToString(Len(results)),
     failures |-> ToString(Len(SelectSeq(results, NotPassed))),
     testcases |->
        [i \in 1..Len(results) |->
            [classname |-> scn.service, name |-> results[i].step_name,
             failure |-> IF results[i].status # "passed"
                         THEN SomeText(IF results[i].error.some /\ results[i].error.val # ""
                                       THEN results[i].error.val ELSE "Step failed")
                         ELSE NoText]]]

NoScenario == Scenario("", "", Str0, <<>>)

\* the scenario document of the bundle: kind "mapping" validates as value,
\* "missing" does not exist, "not_mapping" is YAML that is not a mapping,
\* "invalid" is a mapping Scenario.model_validate rejects
ScenarioDoc(kind, value) == [kind |-> kind, value |-> value]

\* load_scenario
load_scenario(doc) ==
    IF doc.kind = "not_mapping"
    THEN [exc |-> Exc("ValueError", "Scenario file scenario.yaml must contain a mapping"),
          scenario |-> NoScenario]
    ELSE IF doc.kind = "invalid"
    THEN [exc |-> Exc("ValidationError", "validation error for Scenario"),
          scenario |-> NoScenario]
    ELSE [exc |-> NoExc, scenario |-> doc.value]

\* the steps scenarios are built from: one that passes against a 200, one with
\* no protocol, method, payload or assertion of its own, one with a response
\* time limit and an upper-case protocol, one whose payload file is missing, one
\* of an unsupported protocol, one with an unrecognized clause and a clause
\* whose operand is no number; the step whose payload file is missing has the
\* protocol of its scenario
StepPool ==
    LET a_status_200 == <<"s", "t", "a", "t", "u", "s", " ", "=", "=", " ", "2", "0", "0">>
        a_status_OK == <<"s", "t", "a", "t", "u", "s", " ", "=", "=", " ", "O", "K">>
        a_time_100 ==
            <<"r", "e", "s", "p", "o", "n", "s", "e", "_", "t", "i", "m", "e", "_", "m", "s", " ", "<", " ", "1", "0", "0">>
        a_unknown == <<"b", "o", "d", "y", " ", "h", "a", "s", " ", "i", "d">>
    IN  { ScenarioStep("step-pass", proto_openapi,
                       StepRequest(Some(GET), "/ok", "payloads/001_step.json"), <<a_status_200>>),
          ScenarioStep("step-plain", Str0, StepRequest(None, "/ok", ""), <<>>),
          ScenarioStep("step-timed", <<"R", "E", "S", "T">>,
                       StepRequest(Some(<<"g", "e", "t">>), "/ok", ""), <<a_time_100, a_status_200>>),
          ScenarioStep("step-missing", Str0,
                       StepRequest(Some(GET), "/ok", "payloads/gone.json"), <<a_status_200>>),
          ScenarioStep("step-grpc", <<"g", "r", "p", "c">>, StepRequest(Some(GET), "/ok", ""), <<a_status_OK>>),
          ScenarioStep("step-odd", proto_openapi, StepRequest(Some(GET), "/ok", ""),
                       <<a_unknown, a_status_OK>>) }

Scenarios ==
    { Scenario("smoke-payments-v1", "Payments", protocol, steps) :
        protocol \in {proto_openapi, <<"g", "r", "p", "c">>}, steps \in {<<>>} \cup SeqsUpTo(StepPool, MaxSteps) }

ScenarioFiles ==
    { ScenarioDoc("mapping", scn) : scn \in Scenarios }
        \cup { ScenarioDoc(kind, NoScenario) : kind \in {"missing", "not_mapping", "invalid"} }

\* no step has called the executor yet
\* a ScenarioRunner is about to be constructed on a bundle
InitRun ==
    /\ scenario_file \in ScenarioFiles
    /\ r_pc = "new"
    /\ scenario = NoScenario
    /\ index = 0
    /\ in_flight = {}
    /\ step_results = <<>>
    /\ events = <<>>
    /\ events_open = FALSE
    /\ artifacts = {}
    /\ summary = NoSummary
    /\ junit = NoJunit
    /\ r_error = NoExc
    /\ log = <<>>
    /\ on_disk = 0
    /\ executed = [step_index |-> 0, exc |-> NoExc, execution |-> ExecutionResult(0, 0)]
    /\ server = EmptyServer
    /\ MatchIdle
    /\ MockIdle
    /\ LifeIdle
    /\ AssertIdle

\* ScenarioRunner.__init__
Construct ==
    /\ r_pc = "new"
    /\ IF scenario_file.kind = "missing"
       THEN /\ r_pc' = "aborted"
            /\ r_error' = Exc("FileNotFoundError", "Scenario file not found: scenario.yaml")
       ELSE /\ r_pc' = "loading"
            /\ UNCHANGED r_error
    /\ UNCHANGED <<assertVars, lifeVars, executed, on_disk, server, matchVars, mockVars, scenario_file, scenario, index, in_flight,
                   step_results, events, events_open, artifacts, summary, junit, log>>

\* a run that creates the run directory and opens events.jsonl before it
\* loads the scenario
MutantLoadScenario ==
    /\ r_pc = "loading"
    /\ LET loaded == load_scenario(scenario_file)
       IN  /\ artifacts' = {"run_dir", "events.jsonl"}
           /\ IF loaded.exc.raised
              THEN /\ r_pc' = "aborted"
                   /\ r_error' = loaded.exc
                   /\ UNCHANGED <<scenario, index, events_open>>
              ELSE /\ r_pc' = "running"
                   /\ scenario' = loaded.scenario
                   /\ index' = 1
                   /\ events_open' = TRUE
                   /\ UNCHANGED r_error
    /\ UNCHANGED <<assertVars, lifeVars, executed, on_disk, server, matchVars, mockVars, scenario_file, in_flight, step_results,
                   events, summary, junit, log>>

\* run, lines 50-61: load the scenario, create the run directory, open events.jsonl
LoadScenario ==
    /\ r_pc = "loading"
    /\ LET loaded == load_scenario(scenario_file)
       IN  IF loaded.exc.raised
           THEN /\ r_pc' = "aborted"
                /\ r_error' = loaded.exc
                /\ UNCHANGED <<scenario, index, events_open, artifacts>>
           ELSE /\ r_pc' = "running"
                /\ scenario' = loaded.scenario
                /\ index' = 1
                /\ events_open' = TRUE
                /\ artifacts' = {"run_dir", "events.jsonl"}
                /\ UNCHANGED r_error
    /\ UNCHANGED <<assertVars, lifeVars, executed, on_disk, server, matchVars, mockVars, scenario_file, in_flight, step_results,
                   events, summary, junit, log>>

\* run, lines 77-78 and the loop's next iteration: record the result, write its
\* event line.  events_handle is a buffered text file that is never flushed:
\* the lines written stay in its buffer until the buffer is full (the sizes of
\* the lines are not modelled: the buffer is written out or not) or the file
\* is closed.
RecordStep(result, history) ==
    /\ step_results' = Append(step_results, result)
    /\ events' = Append(events, _serialize_step_result(result))
    /\ on_disk' \in {on_disk, Len(events) + 1}
    /\ log' = Append(history, <<"record", index>>)
    /\ in_flight' = in_flight \ {index}
    /\ index' = index + 1
    /\ r_pc' = "running"

\* run line 72 and _execute_step up to the network call: load the payload
\* (outside the try block: what it raises leaves run through the finally
\* clause), then dispatch on the protocol
StartStep ==
    /\ r_pc = "running"
    /\ index <= Len(scenario.steps)
    /\ LET step == scenario.steps[index]
           loaded == _load_payload(step.request.payload)
           dispatch == _execute_with_protocol(scenario, step)
           started == Append(log, <<"start", index>>)
       IN  IF loaded.exc.raised
           THEN /\ r_pc' = "aborted"
                /\ r_error' = loaded.exc
                /\ events_open' = FALSE
                /\ on_disk' = Len(events)
                /\ log' = started
                /\ UNCHANGED <<index, in_flight, step_results, events>>
           ELSE IF dispatch.raised
           THEN /\ RecordStep(_execute_step(step, index, dispatch), started)
                /\ UNCHANGED <<r_error, events_open>>
           ELSE /\ r_pc' = "calling"
                /\ in_flight' = in_flight \cup {index}
                /\ log' = started
                /\ UNCHANGED <<index, step_results, events, r_error, events_open, on_disk>>
    /\ UNCHANGED <<assertVars, lifeVars, executed, server, matchVars, mockVars, scenario_file, scenario, artifacts, summary, junit>>

\* the call returns or raises; _validate_assertions; the StepResult is recorded
CallReturns(outcome) ==
    /\ r_pc = "calling"
    /\ LET step == scenario.steps[index]
           performed == _perform_request(step, outcome)
           exc == IF performed.exc.raised THEN performed.exc
                  ELSE _validate_assertions(step, performed.execution)
       IN  /\ RecordStep(_execute_step(step, index, exc), log)
           /\ executed' = [step_index |-> index, exc |-> performed.exc,
                           execution |-> performed.execution]
    /\ UNCHANGED <<assertVars, lifeVars, server, matchVars, mockVars, scenario_file, scenario, events_open,
                   artifacts, summary, junit, r_error>>

\* run, lines 89-111: close events.jsonl, build and write the summary and the JUnit report
Finish ==
    /\ r_pc = "running"
    /\ index > Len(scenario.steps)
    /\ events_open' = FALSE
    /\ on_disk' = Len(events)
    /\ summary' = _build_summary(scenario, step_results)
    /\ junit' = _write_junit(step_results, scenario)
    /\ artifacts' = artifacts \cup {"summary.json", "results.junit.xml"}
    /\ r_pc' = "done"
    /\ UNCHANGED <<assertVars, lifeVars, executed, server, matchVars, mockVars, scenario_file, scenario, index, in_flight,
                   step_results, events, r_error, log>>

NextRun ==
    \/ Construct
    \/ LoadScenario
    \/ StartStep
    \/ \E outcome \in Outcomes : CallReturns(outcome)
    \/ Finish

SpecRun == InitRun /\ [][NextRun]_vars

(***************************************************************************)
(* Claims on the Scenario Runner, checked under SpecRun.                   *)
(***************************************************************************)
\* load_scenario returned and the run directory exists
Loaded == "run_dir" \in artifacts

\* run has returned or raised
RunEnded == r_pc \in {"done", "aborted"}

StepCount == Len(scenario.steps)

\* C2 (as stated): whatever a step raises (assertion failure, transport error,
\* payload error) becomes a failed StepResult with error text and trace and
\* never stops the iteration, so a run that has ended has recorded every step
\* of the scenario, none of them left without a result because an earlier one
\* failed.
C2_AsStated ==
    (Loaded /\ RunEnded) =>
        /\ r_pc = "done"
        /\ Len(step_results) = StepCount
        /\ \A k \in 1..Len(step_results) :
              step_results[k].status = "failed" =>
                  step_results[k].error.some /\ step_results[k].traceback.some

PayloadMissing(step) ==
    step.request.payload # "" /\ ~BundleFile(step.request.payload).exists

\* C3 (as stated): a step that references a payload file that does not exist
\* gets exactly one failed StepResult, and every later step of the scenario is
\* still executed and recorded.
C3_AsStated ==
    (Loaded /\ RunEnded) =>
        \A k \in 1..StepCount :
            PayloadMissing(scenario.steps[k]) =>
                /\ Len(step_results) = StepCount
                /\ step_results[k].status = "failed"
                /\ step_results[k].step_name = scenario.steps[k].name

\* C4 (as stated): when the run of a loaded scenario of N steps has ended,
\* events.jsonl holds exactly N lines and line k describes scenario step k.
C4_AsStated ==
    (Loaded /\ RunEnded) =>
        /\ ~events_open
        /\ Len(events) = StepCount
        /\ \A k \in 1..Len(events) :
              /\ events[k].step_index = k
              /\ events[k].step_name = scenario.steps[k].name

\* positions of the recorded steps that did not pass
NonPassed == {k \in 1..Len(step_results) : step_results[k].status # "passed"}

\* C5: the ScenarioResult the runner builds has passed_steps + failed_steps =
\* total_steps, total_steps is the number of StepResults recorded, and failures
\* has exactly failed_steps entries, one per non-passed step, in step order.
C5_SummaryArithmetic ==
    r_pc = "done" =>
        /\ summary.passed_steps + summary.failed_steps = summary.total_steps
        /\ summary.total_steps = Len(step_results)
        /\ summary.failed_steps = Cardinality(NonPassed)
        /\ Len(summary.failures) = summary.failed_steps
        /\ \A k \in NonPassed :
              LET j == Cardinality({i \in NonPassed : i <= k})
              IN  /\ summary.failures[j].step_name = step_results[k].step_name
                  /\ summary.failures[j].error = step_results[k].error
                  /\ summary.failures[j].traceback = step_results[k].traceback

C5_Witness ==
    /\ r_pc = "done"
    /\ summary.total_steps = 3
    /\ summary.failed_steps = 2
    /\ summary.passed_steps = 1
    /\ step_results[2].status = "passed"

\* C6: the k-th StepResult recorded belongs to the k-th scenario step and has
\* step_index k, a step starts only after the StepResult of the step before it
\* has been recorded, and at most one step is executing at any moment.
C6_OneAtATime ==
    /\ \A k \in 1..Len(step_results) :
          /\ k <= StepCount
          /\ step_results[k].step_index = k
          /\ step_results[k].step_name = scenario.steps[k].name
          /\ step_results[k].assertions = scenario.steps[k].assertions
    /\ Cardinality(in_flight) <= 1
    /\ \A k \in in_flight : Len(step_results) = k - 1
    /\ \A p \in 1..Len(log) :
          (log[p][1] = "start" /\ log[p][2] > 1) =>
              \E q \in 1..(p - 1) : log[q] = <<"record", log[p][2] - 1>>
    /\ \A p, q \in 1..Len(log) :
          (p < q /\ log[p][1] = "record" /\ log[q][1] = "record") => log[p][2] < log[q][2]

C6_Witness ==
    /\ r_pc = "calling"
    /\ in_flight = {3}
    /\ Len(step_results) = 2
    /\ scenario.steps[1] # scenario.steps[2]
    /\ scenario.steps[2] # scenario.steps[3]

\* the scenario document is missing, is no mapping or does not validate
Unloadable == scenario_file.kind # "mapping"

\* C18: when the scenario document is missing or cannot be parsed and
\* validated, the constructor or load_scenario raises and the run never gets
\* past loading: no run directory and no events.jsonl, summary.json or
\* results.junit.xml exists, no event line is written and no step is started
\* or recorded.
C18_NoArtifactOnLoadFailure ==
    Unloadable =>
        /\ r_pc \in {"new", "loading", "aborted"}
        /\ r_pc = "loading" => load_scenario(scenario_file).exc.raised
        /\ r_pc = "aborted" => r_error.raised
        /\ artifacts = {}
        /\ ~events_open
        /\ events = <<>>
        /\ summary = NoSummary
        /\ junit = NoJunit
        /\ step_results = <<>>
        /\ in_flight = {}
        /\ log = <<>>
        /\ scenario = NoScenario

C18_Witness ==
    /\ scenario_file.kind = "invalid"
    /\ r_pc = "aborted"
    /\ r_error.type = "ValidationError"
    /\ artifacts = {}


\* the exit code of the command test_executor.main.app for a run that
\* completed with the given summary: tests/test_runtime.py runs a bundle whose
\* second step fails (summary failed_steps is 1) and observes exit code 0
ExitCode(result) == 0

\* C19 as stated: the exit status of a completed run signals success exactly
\* when the summary counts no failed step.
C19_AsStated ==
    r_pc = "done" => (ExitCode(summary) = 0 <=> summary.failed_steps = 0)

\* C20: the executor returns every response, a 4xx or 5xx one included, as an
\* ExecutionResult carrying the status of the response and raises only when
\* the transport fails; a step without assertion clauses whose call returned
\* is recorded as passed whatever the status, and a step whose call raised is
\* recorded as failed with the text of the transport error.
C20_HttpErrorIsResult ==
    /\ \A k \in 1..Len(scenario.steps), o \in Outcomes :
          LET p == _perform_request(scenario.steps[k], o)
          IN  IF o.kind = "response"
              THEN ~p.exc.raised /\ p.execution = ExecutionResult(o.status, o.elapsed_ms)
              ELSE p.exc.raised /\ p.exc.type = "RuntimeError"
    /\ LET k == executed.step_index
       IN  k > 0 =>
             /\ k <= Len(step_results)
             /\ executed.exc.raised =>
                   /\ step_results[k].status = "failed"
                   /\ step_results[k].error = SomeText(executed.exc.text)
             /\ (~executed.exc.raised /\ scenario.steps[k].assertions = <<>>) =>
                   /\ step_results[k].status = "passed"
                   /\ step_results[k].error = NoText

C20_Witness ==
    /\ executed.step_index = 2
    /\ ~executed.exc.raised
    /\ executed.execution.status_code = 404
    /\ scenario.steps[2].assertions = <<>>
    /\ step_results[2].status = "passed"
    /\ step_results[1].status = "failed"

\* step k has entered _execute_step
Started(k) == \E p \in 1..Len(log) : log[p] = <<"start", k>>

\* the effective protocol of step k is none of openapi, rest, http
UnsupportedStep(k) == _execute_with_protocol(scenario, scenario.steps[k]).raised

\* C21 as stated: a step whose effective protocol is not an HTTP-transport
\* protocol makes no network call and, once it has been entered, is recorded
\* as a failed StepResult carrying the unsupported-protocol error; the run
\* does not end on it without a result.
C21_AsStated ==
    \A k \in 1..StepCount :
        (UnsupportedStep(k) /\ Started(k)) =>
            /\ k \notin in_flight
            /\ executed.step_index # k
            /\ Len(step_results) >= k
            /\ step_results[k].status = "failed"
            /\ step_results[k].error =
                  SomeText(_execute_with_protocol(scenario, scenario.steps[k]).text)

\* C24 as stated: a run whose scenario has loaded never ends otherwise than
\* done, whatever its steps do; when it has ended every step has a recorded
\* result and both reports are written, and no report is written before every
\* step has a recorded result.
C24_AsStated ==
    /\ (Loaded /\ RunEnded) =>
          /\ r_pc = "done"
          /\ Len(step_results) = StepCount
          /\ {"summary.json", "results.junit.xml"} \subseteq artifacts
    /\ (artifacts \cap {"summary.json", "results.junit.xml"} # {}) =>
          Len(step_results) = StepCount

\* C25 as stated: while step i+1 is executing, events.jsonl holds the lines of
\* the steps 1..i.
C25_AsStated ==
    r_pc = "calling" => on_disk >= index - 1

\* the step's clauses up to some clause `status == OK` are all `body has id`,
\* text no prefix recognizes: evaluation reaches a clause whose operand is no number
ReachesMalformed(step) ==
    \E i \in 1..Len(step.assertions) :
        /\ step.assertions[i] = <<"s", "t", "a", "t", "u", "s", " ", "=", "=", " ", "O", "K">>
        /\ \A j \in 1..(i - 1) :
               step.assertions[j] = <<"b", "o", "d", "y", " ", "h", "a", "s", " ", "i", "d">>

\* C27: when the call of a step returned a response and the evaluation of its
\* clauses reaches one with a recognized prefix whose operand is no number, the
\* step is recorded as failed with the text of the conversion error, and the
\* run goes on: until the next step starts it has raised nothing and is at
\* that step, or has finished.
C27_MalformedOperandFails ==
    \A k \in 1..StepCount :
        (executed.step_index = k /\ ~executed.exc.raised /\ ReachesMalformed(scenario.steps[k])) =>
            /\ Len(step_results) >= k
            /\ step_results[k].status = "failed"
            /\ step_results[k].error = SomeText("invalid literal for int() with base 10: 'OK'")
            /\ step_results[k].traceback.some
            /\ (index = k + 1 /\ ~Started(k + 1)) => (r_pc \in {"running", "done"} /\ ~r_error.raised)

\* a step with such a clause was recorded, and the step after it is being called
C27_Witness ==
    /\ r_pc = "calling"
    /\ index > 1
    /\ executed.step_index = index - 1
    /\ ~executed.exc.raised
    /\ ReachesMalformed(scenario.steps[index - 1])
    /\ step_results[index - 1].status = "failed"

\* C28: every recorded StepResult is passed or failed; it is passed exactly
\* when its error and its traceback are both null, and a failed one carries
\* both; when the call of a step raised, the error recorded is the call's, so
\* no clause of the step was evaluated.
C28_StatusAndErrorAgree ==
    /\ \A k \in 1..Len(step_results) :
          LET result == step_results[k]
          IN  /\ result.status \in {"passed", "failed"}
              /\ result.status = "passed" <=> (~result.error.some /\ ~result.traceback.some)
              /\ result.status = "failed" => (result.error.some /\ result.traceback.some)
    /\ (executed.step_index > 0 /\ executed.exc.raised) =>
          /\ step_results[executed.step_index].status = "failed"
          /\ step_results[executed.step_index].error = SomeText(executed.exc.text)

\* a passed step is followed by a step with clauses whose call raised
C28_Witness ==
    /\ Len(step_results) >= 2
    /\ step_results[1].status = "passed"
    /\ executed.step_index = 2
    /\ executed.exc.raised
    /\ scenario.steps[2].assertions # <<>>
    /\ step_results[2].status = "failed"

(***************************************************************************)
(* Mock Runtime: MockRuntime.start constructs and starts one               *)
(* MockServerRunner per server of the configuration, in order, and         *)
(* MockRuntime.stop stops the runners it tracks.  A server is reduced to   *)
(* the port it listens on.  Clients connect and handler threads finish at  *)
(* any moment in between.                                                  *)
(***************************************************************************)
MaxServers  == 2    \* most servers of a MockConfig
MaxPorts    == 2    \* number of different ports
MaxHandlers == 1    \* handler threads a listener has in flight at the same time

Ports == 1..MaxPorts

\* who holds the listening socket of a port
Free == [by |-> "nobody", index |-> 0]

HeldBy(i) == [by |-> "runner", index |-> i]

\* httpd is none (self._httpd is None), open (bound and listening) or closed;
\* thread is none, alive (inside serve_forever), ended or joined
MockServerRunner(httpd, thread, ready) == [httpd |-> httpd, thread |-> thread, ready |-> ready]

NewRunner == MockServerRunner("none", "none", FALSE)

wait_until_ready(r) == r.ready

\* every configuration of at most MaxServers servers; a port is free or
\* held by another process when the runtime is constructed
InitLife ==
    /\ config \in UNION {[1..n -> Ports] : n \in 0..MaxServers}
    /\ ports \in [Ports -> {Free, [by |-> "other", index |-> 0]}]
    /\ runner = [i \in 1..Len(config) |-> NewRunner]
    /\ handlers = [i \in 1..Len(config) |-> 0]
    /\ runners = <<>>
    /\ rt_pc = "new"
    /\ rt_i = 0
    /\ rt_error = NoExc
    /\ server = EmptyServer
    /\ MatchIdle
    /\ MockIdle
    /\ RunIdle
    /\ AssertIdle

\* MockRuntime.start is entered
RuntimeStart ==
    /\ rt_pc = "new"
    /\ rt_pc' = IF config = <<>> THEN "running" ELSE "binding"
    /\ rt_i' = 1
    /\ UNCHANGED <<config, ports, runner, handlers, runners, rt_error>>
    /\ UNCHANGED <<server, matchVars, mockVars, runVars, assertVars>>

\* a start that signals readiness before it binds the socket
MutantRunnerBind ==
    /\ rt_pc = "binding"
    /\ runner' = [runner EXCEPT ![rt_i].ready = TRUE,
                                ![rt_i].httpd = IF ports[config[rt_i]] = Free THEN "open" ELSE @]
    /\ IF ports[config[rt_i]] = Free
       THEN /\ ports' = [ports EXCEPT ![config[rt_i]] = HeldBy(rt_i)]
            /\ rt_pc' = "bound"
            /\ UNCHANGED rt_error
       ELSE /\ rt_error' = Exc("OSError", "Address already in use")
            /\ rt_pc' = "failed"
            /\ UNCHANGED ports
    /\ UNCHANGED <<config, handlers, runners, rt_i>>
    /\ UNCHANGED <<server, matchVars, mockVars, runVars, assertVars>>

\* MockServerRunner.start up to self._httpd = httpd: the constructor of
\* ThreadedHTTPServer binds and listens, or raises OSError
RunnerBind ==
    /\ rt_pc = "binding"
    /\ IF ports[config[rt_i]] = Free
       THEN /\ ports' = [ports EXCEPT ![config[rt_i]] = HeldBy(rt_i)]
            /\ runner' = [runner EXCEPT ![rt_i].httpd = "open"]
            /\ rt_pc' = "bound"
            /\ UNCHANGED rt_error
       ELSE /\ rt_error' = Exc("OSError", "Address already in use")
            /\ rt_pc' = "failed"
            /\ UNCHANGED <<ports, runner>>
    /\ UNCHANGED <<config, handlers, runners, rt_i>>
    /\ UNCHANGED <<server, matchVars, mockVars, runVars, assertVars>>

\* the rest of MockServerRunner.start: the serve_forever thread is started
\* and the readiness event is set
RunnerServe ==
    /\ rt_pc = "bound"
    /\ runner' = [runner EXCEPT ![rt_i].thread = "alive", ![rt_i].ready = TRUE]
    /\ rt_pc' = "waiting"
    /\ UNCHANGED <<config, ports, handlers, runners, rt_i, rt_error>>
    /\ UNCHANGED <<server, matchVars, mockVars, runVars, assertVars>>

\* a start that keeps the runners in a local list and publishes the list when
\* every server has started
MutantTrack ==
    /\ rt_pc = "waiting"
    /\ runners' = IF rt_i = Len(config) THEN [i \in 1..Len(config) |-> i] ELSE runners
    /\ rt_i' = rt_i + 1
    /\ rt_pc' = IF rt_i = Len(config) THEN "running" ELSE "binding"
    /\ UNCHANGED <<config, ports, runner, handlers, rt_error>>
    /\ UNCHANGED <<server, matchVars, mockVars, runVars, assertVars>>

\* MockRuntime.start after runner.start(): wait_until_ready (its result is
\* not looked at), append, next server
Track ==
    /\ rt_pc = "waiting"
    /\ wait_until_ready(runner[rt_i]) \in BOOLEAN
    /\ runners' = Append(runners, rt_i)
    /\ rt_i' = rt_i + 1
    /\ rt_pc' = IF rt_i = Len(config) THEN "running" ELSE "binding"
    /\ UNCHANGED <<config, ports, runner, handlers, rt_error>>
    /\ UNCHANGED <<server, matchVars, mockVars, runVars, assertVars>>

\* MockRuntime.stop is entered: before any start, after start returned or
\* raised, or after an earlier stop
RuntimeStop ==
    /\ rt_pc \in {"new", "running", "failed", "stopped"}
    /\ rt_pc' = "stopping"
    /\ rt_i' = 1
    /\ UNCHANGED <<config, ports, runner, handlers, runners, rt_error>>
    /\ UNCHANGED <<server, matchVars, mockVars, runVars, assertVars>>

\* MockServerRunner.stop of the next tracked runner up to httpd.shutdown():
\* serve_forever leaves its loop and no connection is accepted any more
RunnerShutdown ==
    /\ rt_pc = "stopping"
    /\ rt_i <= Len(runners)
    /\ IF runner[runners[rt_i]].httpd = "none"
       THEN /\ rt_i' = rt_i + 1
            /\ UNCHANGED <<runner, rt_pc>>
       ELSE /\ runner' = [runner EXCEPT ![runners[rt_i]].thread = "ended"]
            /\ rt_pc' = "closing"
            /\ UNCHANGED rt_i
    /\ UNCHANGED <<config, ports, handlers, runners, rt_error>>
    /\ UNCHANGED <<server, matchVars, mockVars, runVars, assertVars>>

\* httpd.server_close(): the listening socket is closed.  The handler threads
\* are daemon threads, which ThreadingMixIn neither records nor joins.
RunnerClose ==
    /\ rt_pc = "closing"
    /\ runner' = [runner EXCEPT ![runners[rt_i]].httpd = "closed"]
    /\ ports' = [ports EXCEPT ![config[runners[rt_i]]] = Free]
    /\ rt_pc' = "joining"
    /\ UNCHANGED <<config, handlers, runners, rt_i, rt_error>>
    /\ UNCHANGED <<server, matchVars, mockVars, runVars, assertVars>>

\* self._thread.join(timeout=2) on the serve_forever thread, then the next runner
RunnerJoin ==
    /\ rt_pc = "joining"
    /\ runner' = [runner EXCEPT ![runners[rt_i]].thread = "joined"]
    /\ rt_i' = rt_i + 1
    /\ rt_pc' = "stopping"
    /\ UNCHANGED <<config, ports, handlers, runners, rt_error>>
    /\ UNCHANGED <<server, matchVars, mockVars, runVars, assertVars>>

\* a stop that returns without self._runners.clear()
MutantRuntimeStopped ==
    /\ rt_pc = "stopping"
    /\ rt_i > Len(runners)
    /\ rt_pc' = "stopped"
    /\ UNCHANGED <<config, ports, runner, handlers, runners, rt_i, rt_error>>
    /\ UNCHANGED <<server, matchVars, mockVars, runVars, assertVars>>

\* the end of MockRuntime.stop: self._runners.clear()
RuntimeStopped ==
    /\ rt_pc = "stopping"
    /\ rt_i > Len(runners)
    /\ runners' = <<>>
    /\ rt_pc' = "stopped"
    /\ UNCHANGED <<config, ports, runner, handlers, rt_i, rt_error>>
    /\ UNCHANGED <<server, matchVars, mockVars, runVars, assertVars>>

\* serve_forever accepts a connection and hands it to a new handler thread
Connect(i) ==
    /\ runner[i].httpd = "open"
    /\ runner[i].thread = "alive"
    /\ handlers[i] < MaxHandlers
    /\ handlers' = [handlers EXCEPT ![i] = @ + 1]
    /\ UNCHANGED <<config, ports, runner, runners, rt_pc, rt_i, rt_error>>
    /\ UNCHANGED <<server, matchVars, mockVars, runVars, assertVars>>

\* a handler thread has written its response and ends
HandlerReturns(i) ==
    /\ handlers[i] > 0
    /\ handlers' = [handlers EXCEPT ![i] = @ - 1]
    /\ UNCHANGED <<config, ports, runner, runners, rt_pc, rt_i, rt_error>>
    /\ UNCHANGED <<server, matchVars, mockVars, runVars, assertVars>>

NextLife ==
    \/ RuntimeStart
    \/ RunnerBind
    \/ RunnerServe
    \/ Track
    \/ RuntimeStop
    \/ RunnerShutdown
    \/ RunnerClose
    \/ RunnerJoin
    \/ RuntimeStopped
    \/ \E i \in 1..Len(config) : Connect(i) \/ HandlerReturns(i)

SpecLife == InitLife /\ [][NextLife]_vars

(***************************************************************************)
(* Claims on the Mock Runtime, checked under SpecLife.                     *)
(***************************************************************************)
Tracked == {runners[k] : k \in 1..Len(runners)}

\* C15: once start has failed on a bind, every listener that is bound or
\* serving is tracked by the runtime, the server that failed holds nothing,
\* and when a following stop has returned no listener is bound or serving
\* and every port the runtime had bound is free again.
C15_PartialStart ==
    rt_error.raised =>
        /\ \A i \in 1..Len(config) :
              (runner[i].httpd = "open" \/ runner[i].thread = "alive") => i \in Tracked
        /\ rt_pc = "failed" => runner[rt_i] = NewRunner /\ Tracked = 1..(rt_i - 1)
        /\ rt_pc = "stopped" =>
              /\ runners = <<>>
              /\ \A i \in 1..Len(config) :
                    /\ runner[i].httpd # "open"
                    /\ runner[i].thread # "alive"
                    /\ \A p \in Ports : ports[p] # HeldBy(i)

C15_Witness ==
    /\ rt_error.raised
    /\ rt_pc = "stopped"
    /\ Len(config) = 2
    /\ runner[1] = MockServerRunner("closed", "joined", TRUE)
    /\ runner[2] = NewRunner
    /\ ports[config[1]] = Free

\* C16 as stated: the port of a listener is released only when no request
\* handling of the listener is in flight or the bounded wait of stop is over.
C16_AsStated ==
    [][\A i \in 1..Len(config) :
          (runner[i].httpd = "open" /\ runner'[i].httpd = "closed") =>
              handlers[i] = 0 \/ runner[i].thread = "joined"]_vars

\* C17: the readiness event of a listener is set only when its socket has
\* been bound, it is set while the listener still holds the port it bound,
\* wait_until_ready answers true for no listener that was never bound, and
\* the listener whose bind failed is not ready.
C17_ReadyAfterBind ==
    /\ \A i \in 1..Len(config) :
          /\ wait_until_ready(runner[i]) => runner[i].httpd # "none"
          /\ runner[i].httpd = "open" => ports[config[i]] = HeldBy(i)
          /\ runner[i].httpd = "none" => \A p \in Ports : ports[p] # HeldBy(i)
    /\ rt_pc = "failed" => ~wait_until_ready(runner[rt_i])

C17_Witness ==
    /\ rt_pc = "failed"
    /\ rt_i = 2
    /\ wait_until_ready(runner[1])
    /\ ~wait_until_ready(runner[2])
    /\ ports[config[2]] = HeldBy(1)

\* C30: when stop has returned the runtime tracks no listener, no listener is
\* bound or serving and no port is held by one; and a stop of a runtime that
\* tracks no listener (before any start, or after a stop) changes no
\* listener, no port and nothing tracked, and raises no error.
C30_StopIdempotent ==
    /\ [](rt_pc = "stopped" =>
             /\ runners = <<>>
             /\ \A i \in 1..Len(config) :
                   /\ runner[i].httpd # "open"
                   /\ runner[i].thread # "alive"
                   /\ \A p \in Ports : ports[p] # HeldBy(i))
    /\ [][(runners = <<>> /\ rt_pc \in {"new", "stopped", "stopping"}
                /\ rt_pc' \in {"stopping", "stopped"}) =>
              /\ runners' = runners
              /\ runner' = runner
              /\ ports' = ports
              /\ rt_error' = rt_error]_vars

\* a second stop has returned on a runtime whose first stop closed a listener
C30_Witness ==
    /\ Len(config) >= 1
    /\ rt_pc = "stopped"
    /\ rt_i = 1
    /\ runners = <<>>
    /\ runner[1] = MockServerRunner("closed", "joined", TRUE)
    /\ ports[config[1]] = Free
    /\ ~rt_error.raised

(***************************************************************************)
(* Assertion Evaluator: _validate_assertions on its own, one clause per    *)
(* step, for every list of at most MaxClauses clauses and every result of  *)
(* a call.                                                                 *)
(***************************************************************************)
MaxClauses == 3     \* most assertion clauses of a step

\* the clauses steps are given: two status clauses (one with blanks around
\* it and none after ==), a response time clause, two texts the grammar does
\* not know (one is a status clause with a capital S), and a status and a
\* response time clause whose operand is no number
Clauses ==
    [status_200 |-> <<"s", "t", "a", "t", "u", "s", " ", "=", "=", " ", "2", "0", "0">>,
     status_500 |-> <<" ", " ", "s", "t", "a", "t", "u", "s", " ", "=", "=", "5", "0", "0", " ">>,
     time_100 |-> <<"r", "e", "s", "p", "o", "n", "s", "e", "_", "t", "i", "m", "e", "_", "m", "s", " ", "<", " ", "1", "0", "0">>,
     unknown |-> <<"b", "o", "d", "y", " ", "h", "a", "s", " ", "i", "d">>,
     capital |-> <<"S", "t", "a", "t", "u", "s", " ", "=", "=", " ", "5", "0", "0">>,
     status_OK |-> <<"s", "t", "a", "t", "u", "s", " ", "=", "=", " ", "O", "K">>,
     time_fast |-> <<"r", "e", "s", "p", "o", "n", "s", "e", "_", "t", "i", "m", "e", "_", "m", "s", " ", "<", " ", "f", "a", "s", "t">>]

InitAssert ==
    /\ a_step \in { ScenarioStep("s", proto_openapi, StepRequest(Some(GET), "/ok", ""), clauses) :
                      clauses \in {<<>>} \cup SeqsUpTo({Clauses[f] : f \in DOMAIN Clauses}, MaxClauses) }
    /\ a_execution \in { ExecutionResult(200, 50), ExecutionResult(200, 100), ExecutionResult(500, 50) }
    /\ a_i = 1
    /\ a_exc = NoExc
    /\ server = EmptyServer
    /\ MatchIdle
    /\ MockIdle
    /\ RunIdle
    /\ LifeIdle

\* an evaluator that looks at every clause and reports the first error
MutantEvaluateClause ==
    /\ a_i <= Len(a_step.assertions)
    /\ a_exc' = IF a_exc.raised THEN a_exc ELSE EvalClause(a_step, a_execution, a_i)
    /\ a_i' = a_i + 1
    /\ UNCHANGED <<a_step, a_execution>>
    /\ UNCHANGED <<server, matchVars, mockVars, runVars, lifeVars>>

\* one iteration of the loop of _validate_assertions; a clause that raises
\* ends the loop
EvaluateClause ==
    /\ ~a_exc.raised
    /\ a_i <= Len(a_step.assertions)
    /\ a_exc' = EvalClause(a_step, a_execution, a_i)
    /\ a_i' = IF a_exc'.raised THEN a_i ELSE a_i + 1
    /\ UNCHANGED <<a_step, a_execution>>
    /\ UNCHANGED <<server, matchVars, mockVars, runVars, lifeVars>>

NextAssert == EvaluateClause

SpecAssert == InitAssert /\ [][NextAssert]_vars

(***************************************************************************)
(* Claims on the Assertion Evaluator, checked under SpecAssert.            *)
(***************************************************************************)
\* what a clause asks for, read off its text by the grammar of the
\* specification: `status == <int>`, `response_time_ms < <float>`
Meaning(clause) ==
    CASE clause = Clauses.status_200 -> [kind |-> "status", n |-> 200]
      [] clause = Clauses.status_500 -> [kind |-> "status", n |-> 500]
      [] clause = Clauses.time_100 -> [kind |-> "time", n |-> 100]
      [] clause \in {Clauses.status_OK, Clauses.time_fast} -> [kind |-> "malformed", n |-> 0]
      [] OTHER -> [kind |-> "unrecognized", n |-> 0]

Holds(clause, execution) ==
    CASE Meaning(clause).kind = "status" -> execution.status_code = Meaning(clause).n
      [] Meaning(clause).kind = "time" -> execution.elapsed_ms < Meaning(clause).n
      [] Meaning(clause).kind = "malformed" -> FALSE
      [] OTHER -> TRUE

Recognized(clause) == Meaning(clause).kind # "unrecognized"

\* _validate_assertions has returned or raised
Evaluated == a_exc.raised \/ a_i > Len(a_step.assertions)

C23_UnrecognizedIgnored ==
    Evaluated =>
        a_exc = _validate_assertions(
                    [a_step EXCEPT !.assertions = SelectSeq(@, Recognized)], a_execution)

C23_Witness ==
    /\ a_step.assertions = <<Clauses.unknown, Clauses.status_500, Clauses.capital>>
    /\ a_execution.status_code = 500
    /\ a_i = 4
    /\ ~a_exc.raised

\* the clauses of the step that do not hold or have no number as operand
Failing ==
    {j \in 1..Len(a_step.assertions) : ~Holds(a_step.assertions[j], a_execution)}

\* C26: clauses are evaluated in list order; when evaluation has raised, the
\* loop stands at the earliest clause that fails, the error is the error of
\* that clause alone, equal to the outcome of the list cut after it, and no
\* later clause is evaluated.
C26_FirstFailureStops ==
    /\ a_i <= Len(a_step.assertions) + 1
    /\ \A j \in 1..(a_i - 1) : j \notin Failing
    /\ a_exc.raised =>
          /\ a_i \in Failing
          /\ a_exc = EvalClause(a_step, a_execution, a_i)
          /\ a_exc = _validate_assertions(
                         [a_step EXCEPT !.assertions = SubSeq(@, 1, a_i)], a_execution)
          /\ ~ENABLED EvaluateClause

C26_Witness ==
    /\ a_step.assertions = <<Clauses.status_500, Clauses.status_OK, Clauses.time_100>>
    /\ a_execution = ExecutionResult(200, 100)
    /\ a_i = 1
    /\ a_exc.type = "AssertionError"

=============================================================================
